---------------------------- MODULE Spec2Model ----------------------------
(***************************************************************************)
(* Model of the analysis-and-fix pipeline of code_review_agent:            *)
(* FixManager.one_click_fix / fix_file, AutoFixer.fix_content,             *)
(* LinterManager.fix_content, CustomLinter.fix_content, ManualFixer and    *)
(* FileAnalyzer.analyze_file.                                              *)
(*                                                                         *)
(* A text is a sequence of symbols: a symbol is either the newline NL or   *)
(* one statement of source text (a maximal run of text that the regular    *)
(* expressions of the fixers treat as a unit).  Statements on one line are *)
(* separated by blanks, which the model does not represent.                *)
(***************************************************************************)
EXTENDS Integers, Sequences, FiniteSets, TLC

VARIABLES
    pc,             \* position in one_click_fix / fix_content
    content,        \* argument of one_click_fix
    file_path,      \* argument of one_click_fix
    issues,         \* argument of one_click_fix
    fixed_content,  \* local of AutoFixer.fix_content
    applied_fixes,  \* local of AutoFixer.fix_content
    k,              \* position of the loop over auto_fixable_issues
    origin,         \* history: for each applied_fixes entry, the index in issues
                    \* of the issue whose attempt recorded it (0: the linter pass)
    last,           \* history: the most recent fix attempt and its outcome
    result,         \* the dictionary one_click_fix / fix_file returns
    caller,         \* "one_click_fix" when called directly, "fix_file" otherwise
    disk,           \* the text of the file at file_path, NoFile when unreadable
    backup,         \* the text of the .backup sidecar, NoFile when there is none
    self_issues,    \* self.issues of each analyzer of the FileAnalyzer instance
    analyzer_all_issues,  \* self.all_issues of the FileAnalyzer instance
    calls,          \* history: the analyze_file calls the instance has completed
    requests,       \* the requests the front end is serving and their responses
    directory,      \* the directory analyze_directory walks, NoDirectory when missing
    results,        \* local of analyze_directory: the map from file paths to issues
    linter_all_issues, \* self.all_issues of the LinterManager instance
    added_rules     \* the rules add_custom_rule has appended to self.custom_rules

instance_vars == <<self_issues, analyzer_all_issues, calls, requests, directory, results,
                   linter_all_issues, added_rules>>

vars == <<pc, content, file_path, issues, fixed_content, applied_fixes,
          k, origin, last, result, caller, disk, backup,
          self_issues, analyzer_all_issues, calls, requests, directory, results,
          linter_all_issues, added_rules>>

-----------------------------------------------------------------------------
(* Bounds of the inputs. *)
MaxLen == 2
MaxIssues == 2

-----------------------------------------------------------------------------
(* The text alphabet. *)
NL == "\n"
LetStmt == "let x = 1;"
ConstStmt == "const x = 1;"
AssignStmt == "x = 2;"
LogStmt == "console.log(1);"
LogNoSemi == "console.log(1)"
CompoundStmt == "x += 1;"
IncrementStmt == "x++;"
SnakeStmt == "user_name = 1;"
CamelName == "userName"
TypedStmt == "let t: number;"
TightStmt == "let t:number;"
Semi == ";"

Tokens == {LetStmt, AssignStmt, LogStmt, LogNoSemi}
Symbols == Tokens \cup {NL}

RECURSIVE SeqsUpTo(_, _)
SeqsUpTo(S, n) ==
    IF n = 0 THEN {<<>>}
    ELSE LET shorter == SeqsUpTo(S, n - 1)
         IN  shorter \cup {Append(s, x) : s \in {t \in shorter : Len(t) = n - 1}, x \in S}

Contents == SeqsUpTo(Symbols, MaxLen)

(* A file path is the sequence of the parts of its file name: a stem and    *)
(* the dot-led parts after it, <<"a", ".spec", ".ts">> for a.spec.ts.       *)
FixPaths == {<<"a", ".ts">>, <<"a", ".py">>}

-----------------------------------------------------------------------------
(* str.split('\n') and '\n'.join(lines) *)
RECURSIVE SplitAcc(_, _, _)
SplitAcc(s, cur, acc) ==
    IF s = <<>> THEN Append(acc, cur)
    ELSE IF Head(s) = NL THEN SplitAcc(Tail(s), <<>>, Append(acc, cur))
    ELSE SplitAcc(Tail(s), Append(cur, Head(s)), acc)

split(s) == SplitAcc(s, <<>>, <<>>)

RECURSIVE join(_)
join(lines) ==
    IF Len(lines) = 1 THEN lines[1]
    ELSE lines[1] \o <<NL>> \o join(Tail(lines))


Lines(s) == Len(split(s))

-----------------------------------------------------------------------------
(* CodeIssue: the fields the fixers read. *)
NoRule == "<none>"
RuleIds == {"ts-prefer-const", "ts-no-console-log", "style-semicolon", "ts-no-any"}
Severities == {"error", "warning"}
LineNumbers == 1..MaxLen

Description(rule_id) ==
    CASE rule_id = "ts-prefer-const" -> "Variable \"x\" is never reassigned, use const instead of let"
      [] rule_id = "ts-no-console-log" -> "Remove console.log statements before committing"
      [] rule_id = "style-semicolon" -> "Missing semicolon"
      [] OTHER -> "Avoid using \"any\" type, use specific types instead"

CodeIssue == [rule_id : RuleIds, description : {Description(r) : r \in RuleIds},
              severity : Severities, line_number : LineNumbers, auto_fixable : BOOLEAN]

IssuePool == {i \in CodeIssue : i.description = Description(i.rule_id)}
IssueLists == SeqsUpTo(IssuePool, MaxIssues)

(* `word in issue.description.lower()` for the descriptions above *)
DescriptionHas(description, word) ==
    /\ word = "semicolon"
    /\ description = "Missing semicolon"

-----------------------------------------------------------------------------
(* CustomLinter *)
RECURSIVE SkipNewlines(_)
SkipNewlines(s) ==
    IF s # <<>> /\ Head(s) = NL THEN SkipNewlines(Tail(s)) ELSE s

(* re.sub(r'<stmt>;\s*\n?', '', content): every statement of stmts goes,    *)
(* with all the white space after it, newlines included.                    *)
RECURSIVE RemoveStatements(_, _)
RemoveStatements(s, stmts) ==
    IF s = <<>> THEN <<>>
    ELSE IF Head(s) \in stmts THEN RemoveStatements(SkipNewlines(Tail(s)), stmts)
    ELSE <<Head(s)>> \o RemoveStatements(Tail(s), stmts)

ConsoleLogStatements == {LogStmt}
ConsoleStatements == {LogStmt, "console.warn(1);", "console.error(1);",
                      "console.info(1);", "console.debug(1);"}

_apply_auto_fix(rule_id, s) ==
    IF rule_id = "ts-no-console-log" THEN RemoveStatements(s, ConsoleLogStatements)
    ELSE IF rule_id = "pw-no-console-in-tests" THEN RemoveStatements(s, ConsoleStatements)
    ELSE s

(* the auto_fixable rules of custom_rules, in list order *)
AutoFixableCustomRules == <<"ts-no-console-log", "pw-no-console-in-tests">>

RECURSIVE FoldAutoFix(_, _)
FoldAutoFix(rules, s) ==
    IF rules = <<>> THEN s
    ELSE FoldAutoFix(Tail(rules), _apply_auto_fix(Head(rules), s))

CustomLinter_fix_content(s, path) == FoldAutoFix(AutoFixableCustomRules, s)

-----------------------------------------------------------------------------
(* LinterManager *)
(* file_path.endswith(ext) for ext in exts *)
EndsWith(path, exts) == Len(path) > 1 /\ path[Len(path)] \in exts

_should_run_eslint(path) == EndsWith(path, {".ts", ".js", ".tsx", ".jsx"})

can_format_file(path) ==
    EndsWith(path, {".js", ".jsx", ".ts", ".tsx", ".json", ".css", ".scss",
                    ".less", ".html", ".md", ".yml", ".yaml", ".graphql"})

_should_run_prettier(path) == can_format_file(path)

(* ESLint and Prettier are external programs.  The model takes the host on *)
(* which neither is installed: is_available() is False and fix_content     *)
(* returns its argument.                                                    *)
ESLint_fix_content(s, path) == s
Prettier_fix_content(s, path) == s

_get_applicable_linters(path) ==
    {"custom"} \cup (IF _should_run_eslint(path) THEN {"eslint"} ELSE {})
               \cup (IF _should_run_prettier(path) THEN {"prettier"} ELSE {})

LinterManager_fix_content(s, path) ==
    LET linters == _get_applicable_linters(path)
        c1 == IF "custom" \in linters THEN CustomLinter_fix_content(s, path) ELSE s
        c2 == IF "eslint" \in linters /\ _should_run_eslint(path)
              THEN ESLint_fix_content(c1, path) ELSE c1
        c3 == IF "prettier" \in linters /\ _should_run_prettier(path) THEN Prettier_fix_content(c2, path) ELSE c2
    IN  c3


-----------------------------------------------------------------------------
(* AutoFixer *)

(* The keys of fix_patterns. *)
fix_patterns ==
    {"ts-prefer-const", "ts-no-console-log", "ts-add-semicolon",
     "ts-naming-camelcase", "ts-naming-constants", "ts-remove-unused-import",
     "pw-stable-locators", "pw-proper-assertions",
     "prettier-quotes", "prettier-spacing"}

(* re.search(pattern, <statement>), for the rule ids of the issue pools *)
PatternMatches(rule_id, stmt) ==
    \/ rule_id = "ts-prefer-const" /\ stmt = LetStmt
    \/ rule_id = "ts-no-console-log" /\ stmt = LogStmt
    \/ rule_id = "ts-naming-camelcase" /\ stmt = SnakeStmt
    \/ rule_id = "prettier-spacing" /\ stmt \in {TypedStmt, TightStmt}

(* re.findall(f'{var_name}\\s*=', content) for var_name = x: `x += 1;` and   *)
(* `x++;` have no `x` that is followed by blanks and `=`                    *)
AssignmentsOfX == {LetStmt, ConstStmt, AssignStmt}

Count(s, S) == Cardinality({i \in 1..Len(s) : s[i] \in S})

_is_never_reassigned(s) == Count(s, AssignmentsOfX) <= 1

(* pattern_info['condition'](match, content); None for ts-no-console-log;  *)
(* _is_variable_name, of ts-naming-camelcase, looks for a '.', which no     *)
(* statement with a snake-case name has                                     *)
Condition(rule_id, s) ==
    IF rule_id = "ts-prefer-const" THEN _is_never_reassigned(s) ELSE TRUE

(* re.sub(pattern, replacement, line): every match of the line is replaced *)
RECURSIVE SubLine(_, _)
SubLine(rule_id, line) ==
    IF line = <<>> THEN <<>>
    ELSE LET rest == SubLine(rule_id, Tail(line))
         IN  IF ~PatternMatches(rule_id, Head(line)) THEN <<Head(line)>> \o rest
             ELSE IF rule_id = "ts-prefer-const" THEN <<ConstStmt>> \o rest
             ELSE IF rule_id = "prettier-spacing" THEN <<TypedStmt>> \o rest
             ELSE rest

(* callable(replacement): the replacement of the rule is a function *)
Callable(rule_id) ==
    rule_id \in {"ts-naming-camelcase", "ts-naming-constants", "ts-remove-unused-import"}

(* new_line: replacement(match) when the replacement is a function, which   *)
(* for ts-naming-camelcase is the camel-case name alone, and                *)
(* re.sub(pattern, replacement, line) otherwise                             *)
NewLine(rule_id, line) ==
    IF Callable(rule_id) THEN <<CamelName>> ELSE SubLine(rule_id, line)

Failure(reason) == [success |-> FALSE, content |-> <<>>, reason |-> reason]
Success(s) == [success |-> TRUE, content |-> s, reason |-> "ok"]

SetLine(lines, n, line) == [lines EXCEPT ![n] = line]

_apply_pattern_fix(s, rule_id, issue) ==
    LET lines == split(s)
        n == issue.line_number
    IN  IF n <= Len(lines) /\ \E i \in 1..Len(lines[n]) : PatternMatches(rule_id, lines[n][i])
        THEN IF ~Condition(rule_id, s) THEN Failure("Condition not met")
             ELSE Success(join(SetLine(lines, n, NewLine(rule_id, lines[n]))))
        ELSE Failure("Pattern not found")

(* line.rstrip().endswith(';') *)
EndsWithSemicolon(line) ==
    line # <<>> /\ line[Len(line)] \in {LetStmt, ConstStmt, AssignStmt, LogStmt, Semi,
                                         CompoundStmt, IncrementStmt, SnakeStmt,
                                         TypedStmt, TightStmt}

(* line.rstrip() + ';' *)
AddSemicolon(line) ==
    IF line = <<>> THEN <<Semi>>
    ELSE IF line[Len(line)] = LogNoSemi THEN SetLine(line, Len(line), LogStmt)
    ELSE Append(line, Semi)

_fix_missing_semicolon(s, issue) ==
    LET lines == split(s)
        n == issue.line_number
    IN  IF n <= Len(lines) /\ ~EndsWithSemicolon(lines[n])
        THEN Success(join(SetLine(lines, n, AddSemicolon(lines[n]))))
        ELSE Failure("Could not add semicolon")

_apply_generic_fix(s, issue) ==
    IF DescriptionHas(issue.description, "unused") /\ DescriptionHas(issue.description, "import")
    THEN Failure("Could not fix unused import")
    ELSE IF DescriptionHas(issue.description, "semicolon") THEN _fix_missing_semicolon(s, issue)
    ELSE IF DescriptionHas(issue.description, "spacing") THEN Failure("Could not fix spacing")
    ELSE IF DescriptionHas(issue.description, "quote") THEN Failure("Could not fix quotes")
    ELSE Failure("No generic fix available")

_apply_issue_fix(s, issue) ==
    IF issue.rule_id \in fix_patterns
    THEN _apply_pattern_fix(s, issue.rule_id, issue)
    ELSE _apply_generic_fix(s, issue)


-----------------------------------------------------------------------------
(* ManualFixer *)
IsAutoFixable(issue) == issue.auto_fixable
IsManual(issue) == ~issue.auto_fixable

(* the keys of issue_groups, in insertion order *)
RECURSIVE GroupKeys(_, _)
GroupKeys(iss, seen) ==
    IF iss = <<>> THEN <<>>
    ELSE IF Head(iss).auto_fixable \/ Head(iss).rule_id \in seen
         THEN GroupKeys(Tail(iss), seen)
         ELSE <<Head(iss).rule_id>> \o GroupKeys(Tail(iss), seen \cup {Head(iss).rule_id})

base_effort(rule_id) ==
    CASE rule_id \in {"ts-single-responsibility", "pw-page-object-pattern"} -> "high"
      [] rule_id \in {"pw-stable-locators", "cucumber-given-when-then",
                      "cucumber-imperative-mood"} -> "low"
      [] OTHER -> "medium"

EffortEscalation == 10

_estimate_effort(rule_id, issue_count) ==
    IF issue_count > EffortEscalation /\ base_effort(rule_id) = "low" THEN "medium"
    ELSE IF issue_count > EffortEscalation /\ base_effort(rule_id) = "medium" THEN "high"
    ELSE base_effort(rule_id)

WarningPriority == 5

_calculate_priority(group) ==
    IF \E i \in 1..Len(group) : group[i].severity = "error" THEN "high"
    ELSE IF Cardinality({i \in 1..Len(group) : group[i].severity = "warning"}) > WarningPriority
         THEN "medium"
    ELSE "low"

_create_suggestion(rule_id, group) ==
    [rule_id |-> rule_id,
     affected_lines |-> [i \in 1..Len(group) |-> group[i].line_number],
     issue_count |-> Len(group),
     severity |-> IF group # <<>> THEN group[1].severity ELSE "warning",
     estimated_effort |-> _estimate_effort(rule_id, Len(group)),
     priority |-> _calculate_priority(group)]

(* a variant that makes one suggestion for each issue, without grouping *)
SuggestionPerIssue(iss) ==
    LET manual == SelectSeq(iss, IsManual)
    IN  [j \in 1..Len(manual) |-> _create_suggestion(manual[j].rule_id, <<manual[j]>>)]

get_manual_suggestions(iss) ==
    LET keys == GroupKeys(iss, {})
        InGroup(r) == LET Test(i) == ~i.auto_fixable /\ i.rule_id = r
                      IN  SelectSeq(iss, Test)
    IN  [j \in 1..Len(keys) |-> _create_suggestion(keys[j], InGroup(keys[j]))]


-----------------------------------------------------------------------------
(* FixManager *)

(* round(100 * n / d, 1), in tenths of a percent; Python rounds half to even *)
RoundedPercentage(n, d) ==
    LET q == (1000 * n) \div d
        r == (1000 * n) % d
    IN  IF 2 * r < d THEN q
        ELSE IF 2 * r > d THEN q + 1
        ELSE IF q % 2 = 0 THEN q ELSE q + 1

(* len([f for f in applied_fixes if any(i.severity == severity               *)
(*      for i in all_issues if i.rule_id == f.get('rule_id'))])              *)
FixedOfSeverity(all_issues, fixes, severity) ==
    Cardinality({j \in 1..Len(fixes) :
        \E i \in 1..Len(all_issues) :
            /\ all_issues[i].rule_id = fixes[j].rule_id
            /\ all_issues[i].severity = severity})

IssuesOfSeverity(all_issues, severity) ==
    Cardinality({i \in 1..Len(all_issues) : all_issues[i].severity = severity})

_categorize_fixes(fixes) ==
    [t \in {"linter_fix", "pattern_fix"} |->
        Cardinality({j \in 1..Len(fixes) : fixes[j].type = t})]

_calculate_fix_statistics(all_issues, fixes, suggestions) ==
    [total_issues |-> Len(all_issues),
     auto_fixed |-> Len(fixes),
     manual_required |-> Len(suggestions),
     completion_percentage |->
        IF Len(all_issues) > 0 THEN RoundedPercentage(Len(fixes), Len(all_issues))
        ELSE 1000,
     severity_breakdown |->
        [sv \in {"error", "warning", "info"} |->
            [total |-> IssuesOfSeverity(all_issues, sv),
             auto_fixed |-> FixedOfSeverity(all_issues, fixes, sv),
             manual_required |->
                Cardinality({j \in 1..Len(suggestions) : suggestions[j].severity = sv})]],
     fix_types |-> _categorize_fixes(fixes)]

_generate_next_steps(fixes, suggestions) ==
    LET high == Cardinality({j \in 1..Len(suggestions) : suggestions[j].priority = "high"})
        medium == Cardinality({j \in 1..Len(suggestions) : suggestions[j].priority = "medium"})
    IN  (IF fixes # <<>> THEN <<[step |-> "automatically fixed", n |-> Len(fixes)]>> ELSE <<>>)
        \o (IF suggestions # <<>> /\ high > 0
            THEN <<[step |-> "high-priority", n |-> high]>> ELSE <<>>)
        \o (IF suggestions # <<>> /\ medium > 0
            THEN <<[step |-> "medium-priority", n |-> medium]>> ELSE <<>>)
        \o (IF fixes = <<>> /\ suggestions = <<>>
            THEN <<[step |-> "No issues found", n |-> 0]>> ELSE <<>>)
        \o <<[step |-> "Run tests", n |-> 0]>>

ErrorWeight == 3
WarningWeight == 1

_calculate_quality_improvement(original_issues, fixes) ==
    LET original_errors == IssuesOfSeverity(original_issues, "error")
        original_warnings == IssuesOfSeverity(original_issues, "warning")
        fixed_errors == FixedOfSeverity(original_issues, fixes, "error")
        fixed_warnings == FixedOfSeverity(original_issues, fixes, "warning")
        total_weight == original_errors * ErrorWeight + original_warnings * WarningWeight
        fixed_weight == fixed_errors * ErrorWeight + fixed_warnings * WarningWeight
    IN  [original_errors |-> original_errors,
         original_warnings |-> original_warnings,
         fixed_errors |-> fixed_errors,
         fixed_warnings |-> fixed_warnings,
         improvement_score |->
            IF total_weight > 0 THEN RoundedPercentage(fixed_weight, total_weight) ELSE 0,
         remaining_errors |-> original_errors - fixed_errors,
         remaining_warnings |-> original_warnings - fixed_warnings]

-----------------------------------------------------------------------------
(* The run of one_click_fix(content, file_path, issues). *)
NoResult == [returned |-> FALSE]
Analyzers == {"typescript", "playwright", "cucumber"}
NoDirectory == [exists |-> FALSE, files |-> <<>>]
EmptyMap == [key \in {} |-> <<>>]
NoFile == [exists |-> FALSE, text |-> <<>>]
File(text) == [exists |-> TRUE, text |-> text]
NoAttempt == [issue |-> 0, success |-> FALSE, reason |-> "none",
              before |-> <<>>, fixes_before |-> 0]

(* a variant that keeps every issue, auto_fixable or not *)
AllIndices(iss, i) == [j \in 1..(Len(iss) - i + 1) |-> j + i - 1]

(* auto_fixable_issues, as indices into issues *)
RECURSIVE AutoIndices(_, _)
AutoIndices(iss, i) ==
    IF i > Len(iss) THEN <<>>
    ELSE (IF iss[i].auto_fixable THEN <<i>> ELSE <<>>) \o AutoIndices(iss, i + 1)

auto_fixable_issues == AutoIndices(issues, 1)

Init ==
    /\ pc = "idle"
    /\ content = <<>>
    /\ file_path = <<>>
    /\ issues = <<>>
    /\ fixed_content = <<>>
    /\ applied_fixes = <<>>
    /\ k = 0
    /\ origin = <<>>
    /\ last = NoAttempt
    /\ result = NoResult
    /\ caller = "one_click_fix"
    /\ disk = NoFile
    /\ backup = NoFile
    /\ self_issues = [a \in Analyzers |-> <<>>]
    /\ analyzer_all_issues = <<>>
    /\ calls = <<>>
    /\ requests = <<>>
    /\ directory = NoDirectory
    /\ results = EmptyMap
    /\ linter_all_issues = <<>>
    /\ added_rules = <<>>

(* one_click_fix is called; fix_content starts (auto_fixer.py:93-94) *)
Call ==
    /\ pc = "idle"
    /\ \E c \in Contents, p \in FixPaths, iss \in IssueLists :
        /\ content' = c
        /\ file_path' = p
        /\ issues' = iss
        /\ fixed_content' = c
    /\ applied_fixes' = <<>>
    /\ pc' = "linter"
    /\ UNCHANGED <<k, origin, last, result, caller, disk, backup>>
    /\ UNCHANGED instance_vars

(* the linter pass (auto_fixer.py:96-104) *)
LinterFix ==
    /\ pc = "linter"
    /\ LET linter_fixed == LinterManager_fix_content(content, file_path)
       IN  IF linter_fixed # content
           THEN /\ applied_fixes' = Append(applied_fixes,
                        [type |-> "linter_fix", rule_id |-> NoRule, line_number |-> 0])
                /\ origin' = Append(origin, 0)
                /\ fixed_content' = linter_fixed
           ELSE UNCHANGED <<applied_fixes, origin, fixed_content>>
    /\ k' = 1
    /\ pc' = "fixing"
    /\ UNCHANGED <<content, file_path, issues, last, result, caller, disk, backup>>
    /\ UNCHANGED instance_vars

(* a variant of the loop that stops at the first failed attempt *)
AttemptFixStopOnFailure ==
    /\ pc = "fixing"
    /\ k <= Len(auto_fixable_issues)
    /\ LET idx == auto_fixable_issues[k]
           issue == issues[idx]
           fix_result == _apply_issue_fix(fixed_content, issue)
       IN  /\ IF fix_result.success
              THEN /\ fixed_content' = fix_result.content
                   /\ applied_fixes' = Append(applied_fixes,
                        [type |-> "pattern_fix", rule_id |-> issue.rule_id,
                         line_number |-> issue.line_number])
                   /\ origin' = Append(origin, idx)
                   /\ k' = k + 1
              ELSE /\ UNCHANGED <<fixed_content, applied_fixes, origin>>
                   /\ k' = Len(auto_fixable_issues) + 1
           /\ last' = [issue |-> idx, success |-> fix_result.success,
                       reason |-> fix_result.reason, before |-> fixed_content,
                       fixes_before |-> Len(applied_fixes)]
    /\ UNCHANGED <<pc, content, file_path, issues, result, caller, disk, backup>>
    /\ UNCHANGED instance_vars

(* a variant that gives every attempt the content fix_content started with *)
AttemptFixOnOriginal ==
    /\ pc = "fixing"
    /\ k <= Len(auto_fixable_issues)
    /\ LET idx == auto_fixable_issues[k]
           issue == issues[idx]
           fix_result == _apply_issue_fix(content, issue)
       IN  /\ IF fix_result.success
              THEN /\ fixed_content' = fix_result.content
                   /\ applied_fixes' = Append(applied_fixes,
                        [type |-> "pattern_fix", rule_id |-> issue.rule_id,
                         line_number |-> issue.line_number])
                   /\ origin' = Append(origin, idx)
              ELSE UNCHANGED <<fixed_content, applied_fixes, origin>>
           /\ last' = [issue |-> idx, success |-> fix_result.success,
                       reason |-> fix_result.reason, before |-> fixed_content,
                       fixes_before |-> Len(applied_fixes)]
    /\ k' = k + 1
    /\ UNCHANGED <<pc, content, file_path, issues, result, caller, disk, backup>>
    /\ UNCHANGED instance_vars

(* one iteration of the loop over auto_fixable_issues (auto_fixer.py:109-118) *)
AttemptFix ==
    /\ pc = "fixing"
    /\ k <= Len(auto_fixable_issues)
    /\ LET idx == auto_fixable_issues[k]
           issue == issues[idx]
           fix_result == _apply_issue_fix(fixed_content, issue)
       IN  /\ IF fix_result.success
              THEN /\ fixed_content' = fix_result.content
                   /\ applied_fixes' = Append(applied_fixes,
                        [type |-> "pattern_fix", rule_id |-> issue.rule_id,
                         line_number |-> issue.line_number])
                   /\ origin' = Append(origin, idx)
              ELSE UNCHANGED <<fixed_content, applied_fixes, origin>>
           /\ last' = [issue |-> idx, success |-> fix_result.success,
                       reason |-> fix_result.reason, before |-> fixed_content,
                       fixes_before |-> Len(applied_fixes)]
    /\ k' = k + 1
    /\ UNCHANGED <<pc, content, file_path, issues, result, caller, disk, backup>>
    /\ UNCHANGED instance_vars

(* fix_content returns; suggestions, statistics and the result (fix_manager.py:36-51) *)
Return ==
    /\ pc = "fixing"
    /\ k > Len(auto_fixable_issues)
    /\ LET manual_suggestions == get_manual_suggestions(SelectSeq(issues, IsManual))
       IN  result' =
            [returned |-> TRUE,
             original_content |-> content,
             fixed_content |-> fixed_content,
             content_changed |-> fixed_content # content,
             applied_fixes |-> applied_fixes,
             manual_suggestions |-> manual_suggestions,
             fix_statistics |->
                _calculate_fix_statistics(issues, applied_fixes, manual_suggestions),
             next_steps |-> _generate_next_steps(applied_fixes, manual_suggestions),
             quality_improvement |->
                _calculate_quality_improvement(issues, applied_fixes)]
    /\ pc' = IF caller = "fix_file" THEN "write_back" ELSE "done"
    /\ UNCHANGED <<content, file_path, issues, fixed_content, applied_fixes, k, origin,
                   last, caller, disk, backup>>
    /\ UNCHANGED instance_vars

Next == Call \/ LinterFix \/ AttemptFix \/ Return

Spec == Init /\ [][Next]_vars

-----------------------------------------------------------------------------
(* The run of fix_file(file_path, issues), as fix_directory calls it. *)
ErrorResult == [returned |-> TRUE, success |-> FALSE, file_modified |-> FALSE]

InitFile ==
    /\ pc = "idle"
    /\ content = <<>>
    /\ file_path = <<>>
    /\ issues = <<>>
    /\ fixed_content = <<>>
    /\ applied_fixes = <<>>
    /\ k = 0
    /\ origin = <<>>
    /\ last = NoAttempt
    /\ result = NoResult
    /\ caller = "fix_file"
    /\ disk \in {File(c) : c \in Contents} \cup {NoFile}
    /\ backup = NoFile
    /\ self_issues = [a \in Analyzers |-> <<>>]
    /\ analyzer_all_issues = <<>>
    /\ calls = <<>>
    /\ requests = <<>>
    /\ directory = NoDirectory
    /\ results = EmptyMap
    /\ linter_all_issues = <<>>
    /\ added_rules = <<>>

(* open(file_path, 'r') and read, then one_click_fix (fix_manager.py:64-76) *)
FixFileCall ==
    /\ pc = "idle"
    /\ disk.exists
    /\ \E p \in FixPaths, iss \in IssueLists :
        /\ file_path' = p
        /\ issues' = iss
    /\ content' = disk.text
    /\ fixed_content' = disk.text
    /\ applied_fixes' = <<>>
    /\ pc' = "linter"
    /\ UNCHANGED <<k, origin, last, result, caller, disk, backup>>
    /\ UNCHANGED instance_vars

(* open(file_path, 'r') raises: the except branch (fix_manager.py:91-96) *)
FixFileReadError ==
    /\ pc = "idle"
    /\ ~disk.exists
    /\ \E p \in FixPaths, iss \in IssueLists :
        /\ file_path' = p
        /\ issues' = iss
    /\ result' = ErrorResult
    /\ pc' = "done"
    /\ UNCHANGED <<content, fixed_content, applied_fixes, k, origin, last, caller,
                   disk, backup>>
    /\ UNCHANGED instance_vars

(* nothing changed: no write, no backup (fix_manager.py:85-89) *)
FixFileUnchanged ==
    /\ pc = "write_back"
    /\ ~result.content_changed
    /\ result' = [file_modified |-> FALSE, backup_created |-> FALSE] @@ result
    /\ pc' = "done"
    /\ UNCHANGED <<content, file_path, issues, fixed_content, applied_fixes, k, origin,
                   last, caller, disk, backup>>
    /\ UNCHANGED instance_vars

(* open(file_path, 'w') and write fixed_content (fix_manager.py:79-81) *)
WriteBack ==
    /\ pc = "write_back"
    /\ result.content_changed
    /\ disk' = File(result.fixed_content)
    /\ pc' = "create_backup"
    /\ UNCHANGED <<content, file_path, issues, fixed_content, applied_fixes, k, origin,
                   last, result, caller, backup>>
    /\ UNCHANGED instance_vars

(* open(file_path, 'w') raises: the except branch (fix_manager.py:91-96) *)
WriteBackError ==
    /\ pc = "write_back"
    /\ result.content_changed
    /\ result' = ErrorResult
    /\ pc' = "done"
    /\ UNCHANGED <<content, file_path, issues, fixed_content, applied_fixes, k, origin,
                   last, caller, disk, backup>>
    /\ UNCHANGED instance_vars

(* _create_backup(file_path, original_content); a failed write returns False *)
(* (fix_manager.py:83-84, 295-303)                                           *)
CreateBackup ==
    /\ pc = "create_backup"
    /\ \E written \in BOOLEAN :
        /\ backup' = IF written THEN File(content) ELSE backup
        /\ result' = [file_modified |-> TRUE, backup_created |-> written] @@ result
    /\ pc' = "done"
    /\ UNCHANGED <<content, file_path, issues, fixed_content, applied_fixes, k, origin,
                   last, caller, disk>>
    /\ UNCHANGED instance_vars

NextFile ==
    \/ FixFileCall \/ FixFileReadError
    \/ LinterFix \/ AttemptFix \/ Return
    \/ FixFileUnchanged \/ WriteBack \/ WriteBackError \/ CreateBackup

SpecFile == InitFile /\ [][NextFile]_vars


-----------------------------------------------------------------------------
(* FileAnalyzer.analyze_file and the three analyzers it coordinates. *)
SleepStmt == "sleep(1);"
PlaywrightComment == "// playwright"

AnalysisTokens == {LetStmt, LogStmt, SleepStmt, PlaywrightComment}
AnalysisContents == SeqsUpTo(AnalysisTokens \cup {NL}, MaxLen)

AnalysisPaths ==
    {<<"a", ".ts">>, <<"a", ".spec", ".ts">>, <<"a", ".test", ".js">>,
     <<"steps", ".ts">>, <<"a", ".feature">>, <<"a", ".FEATURE">>,
     <<"a", ".py">>, <<"step", ".py">>}

(* str.lower() on the parts of the paths above *)
Lower(part) == IF part = ".FEATURE" THEN ".feature" ELSE part

(* Path(file_path).suffix.lower() *)
file_extension(path) == Lower(path[Len(path)])

(* `needle in Path(file_path).name.lower()` for '.spec.', '.test.', 'step' *)
NameHas(path, needle) ==
    CASE needle = ".spec." -> \E i \in 1..(Len(path) - 1) : Lower(path[i]) = ".spec"
      [] needle = ".test." -> \E i \in 1..(Len(path) - 1) : Lower(path[i]) = ".test"
      [] needle = "step" -> \E i \in 1..Len(path) : Lower(path[i]) \in {"step", "steps"}
      [] OTHER -> FALSE

(* `'.spec.ts' in file_path`, case kept *)
PathHasSpecTs(path) ==
    \E i \in 1..(Len(path) - 1) : path[i] = ".spec" /\ path[i + 1] = ".ts"

(* `'playwright' in content.lower() or 'page.' in content` *)
HasFrameworkSignal(s) == \E i \in 1..Len(s) : s[i] = PlaywrightComment

(* a variant that numbers the lines from 0, as enumerate(lines) would *)
LineOfFromZero(s, i) == Cardinality({j \in 1..(i - 1) : s[j] = NL})

(* the line number of the symbol at position i of s *)
LineOf(s, i) == 1 + Cardinality({j \in 1..(i - 1) : s[j] = NL})

_add_issue(rule_id, description, severity, line_number, auto_fixable) ==
    [rule_id |-> rule_id, description |-> description, severity |-> severity,
     line_number |-> line_number, auto_fixable |-> auto_fixable]

_get_analyzers_for_file(path, s) ==
    (IF file_extension(path) \in {".ts", ".js"} THEN <<"typescript">> ELSE <<>>)
    \o (IF /\ file_extension(path) \in {".ts", ".js"}
           /\ \/ NameHas(path, ".spec.") \/ NameHas(path, ".test.")
              \/ HasFrameworkSignal(s)
        THEN <<"playwright">> ELSE <<>>)
    \o (IF file_extension(path) = ".feature" THEN <<"cucumber">>
        ELSE IF NameHas(path, "step") /\ file_extension(path) \in {".ts", ".js"}
        THEN <<"cucumber">> ELSE <<>>)

(* the statements in which re.search(r'\w+\.\w+(?!\?)', line) finds a match *)
MemberAccessStatements == {LogStmt}

(* _check_type_safety: on a line with a member access the second pattern,   *)
(* r'\?\.|??', is compiled, and re.compile rejects it with re.error.        *)
_check_type_safety_raises(s) == \E i \in 1..Len(s) : s[i] \in MemberAccessStatements

(* `'++' in line` for the line of the symbol at position i *)
LineHasIncrement(s, i) ==
    \E j \in 1..Len(s) :
        /\ s[j] = IncrementStmt
        /\ LineOf(s, j) = LineOf(s, i)

(* _check_code_structure: one ts-prefer-const issue for each `let x =` on a *)
(* line without `++`                                                        *)
RECURSIVE _check_code_structure(_, _)
_check_code_structure(s, i) ==
    IF i > Len(s) THEN <<>>
    ELSE (IF s[i] = LetStmt /\ ~LineHasIncrement(s, i)
          THEN <<_add_issue("ts-prefer-const", Description("ts-prefer-const"),
                            "warning", LineOf(s, i), TRUE)>>
          ELSE <<>>) \o _check_code_structure(s, i + 1)

(* _check_waiting_patterns: one pw-explicit-waits issue for each line with a sleep *)
RECURSIVE _check_waiting_patterns(_, _)
_check_waiting_patterns(lines, n) ==
    IF n > Len(lines) THEN <<>>
    ELSE (IF \E i \in 1..Len(lines[n]) : lines[n][i] = SleepStmt
          THEN <<_add_issue("pw-explicit-waits",
                            "Avoid sleep/setTimeout, use Playwright waiting methods",
                            "error", n, FALSE)>>
          ELSE <<>>) \o _check_waiting_patterns(lines, n + 1)

_check_performance_patterns(s, path) ==
    IF PathHasSpecTs(path)
    THEN <<_add_issue("pw-parallel-execution",
                      "Consider configuring tests for parallel execution",
                      "info", 1, FALSE)>>
    ELSE <<>>

(* _check_feature_structure on a text without a Feature: line *)
_check_feature_structure(s) ==
    <<_add_issue("cucumber-feature-structure",
                 "Feature file must start with a Feature declaration", "error", 1, FALSE),
      _add_issue("cucumber-feature-structure",
                 "Feature should include user story format (As a... I want... So that...)",
                 "warning", 1, FALSE)>>

(* _check_step_organization: no path above names a domain *)
_check_step_organization(path) ==
    <<_add_issue("cucumber-step-organization",
                 "Consider organizing step definitions by domain/feature",
                 "warning", 1, FALSE)>>

(* `'step' in file_path.lower()` *)
PathHasStep(path) == \E i \in 1..Len(path) : Lower(path[i]) \in {"step", "steps"}

(* BaseAnalyzer.analyze_file of each analyzer: the issues, or the exception *)
Issues(list) == [raised |-> FALSE, issues |-> list]
Raises == [raised |-> TRUE, issues |-> <<>>]

TypeScriptAnalyzer(s, path) ==
    IF _check_type_safety_raises(s) THEN Raises
    ELSE Issues(_check_code_structure(s, 1))

PlaywrightAnalyzer(s, path) ==
    Issues(_check_waiting_patterns(split(s), 1) \o _check_performance_patterns(s, path))

CucumberAnalyzer(s, path) ==
    IF path[Len(path)] = ".feature" THEN Issues(_check_feature_structure(s))
    ELSE IF PathHasStep(path) THEN Issues(_check_step_organization(path))
    ELSE Issues(<<>>)

analyzer_analyze_file(analyzer, s, path) ==
    CASE analyzer = "typescript" -> TypeScriptAnalyzer(s, path)
      [] analyzer = "playwright" -> PlaywrightAnalyzer(s, path)
      [] OTHER -> CucumberAnalyzer(s, path)

(* a variant of BaseAnalyzer.analyze_file that keeps the issues of earlier calls *)
BaseAnalyzer_analyze_file_keeping(old_issues, analyzer, s, path) ==
    LET emitted == analyzer_analyze_file(analyzer, s, path)
    IN  [raised |-> emitted.raised, issues |-> old_issues \o emitted.issues]

(* BaseAnalyzer.analyze_file: self.issues = [], then _analyze_content appends *)
(* to self.issues, which is returned (base_analyzer.py:45-49)                 *)
BaseAnalyzer_analyze_file(old_issues, analyzer, s, path) ==
    LET cleared == <<>>
        emitted == analyzer_analyze_file(analyzer, s, path)
    IN  [raised |-> emitted.raised, issues |-> cleared \o emitted.issues]

(* the analyzers analyze_file has run to completion, in order *)
analyzers_to_run == _get_analyzers_for_file(file_path, content)
ran == SubSeq(analyzers_to_run, 1, k - 1)

FileReadError ==
    _add_issue("file-read-error", "Could not read file", "error", 1, FALSE)

InitAnalyze ==
    /\ pc = "idle"
    /\ content = <<>>
    /\ file_path = <<>>
    /\ issues = <<>>
    /\ fixed_content = <<>>
    /\ applied_fixes = <<>>
    /\ k = 0
    /\ origin = <<>>
    /\ last = NoAttempt
    /\ result = NoResult
    /\ caller = "analyze_file"
    /\ disk \in {File(c) : c \in AnalysisContents} \cup {NoFile}
    /\ backup = NoFile
    /\ self_issues = [a \in Analyzers |-> <<>>]
    /\ analyzer_all_issues = <<>>
    /\ calls = <<>>
    /\ requests = <<>>
    /\ directory = NoDirectory
    /\ results = EmptyMap
    /\ linter_all_issues = <<>>
    /\ added_rules = <<>>

(* analyze_file(file_path, content) with the content given (file_analyzer.py:47-51) *)
AnalyzeContent ==
    /\ pc = "idle"
    /\ \E p \in AnalysisPaths, c \in AnalysisContents :
        /\ file_path' = p
        /\ content' = c
    /\ issues' = <<>>
    /\ k' = 1
    /\ pc' = "analyzing"
    /\ UNCHANGED <<fixed_content, applied_fixes, origin, last, result, caller, disk, backup>>
    /\ UNCHANGED instance_vars

(* analyze_file(file_path): the content is read from the file (file_analyzer.py:33-36) *)
AnalyzeRead ==
    /\ pc = "idle"
    /\ disk.exists
    /\ \E p \in AnalysisPaths : file_path' = p
    /\ content' = disk.text
    /\ issues' = <<>>
    /\ k' = 1
    /\ pc' = "analyzing"
    /\ UNCHANGED <<fixed_content, applied_fixes, origin, last, result, caller, disk, backup>>
    /\ UNCHANGED instance_vars

(* analyze_file(file_path): the file cannot be read (file_analyzer.py:37-45) *)
AnalyzeReadError ==
    /\ pc = "idle"
    /\ ~disk.exists
    /\ \E p \in AnalysisPaths : file_path' = p
    /\ result' = [returned |-> TRUE, issues |-> <<FileReadError>>]
    /\ pc' = "done"
    /\ UNCHANGED <<content, issues, fixed_content, applied_fixes, k, origin, last,
                   caller, disk, backup>>
    /\ UNCHANGED instance_vars

(* one iteration of the loop over analyzers_to_run (file_analyzer.py:53-55); *)
(* an exception of the analyzer leaves analyze_file, which catches nothing   *)
RunAnalyzer ==
    /\ pc = "analyzing"
    /\ k <= Len(analyzers_to_run)
    /\ LET analyzer == analyzers_to_run[k]
           analyzer_issues == BaseAnalyzer_analyze_file(self_issues[analyzer], analyzer,
                                                        content, file_path)
       IN  /\ self_issues' = [self_issues EXCEPT ![analyzer] = analyzer_issues.issues]
           /\ IF analyzer_issues.raised
              THEN /\ pc' = "raised"
                   /\ result' = [returned |-> FALSE, exception |-> "re.error"]
                   /\ UNCHANGED <<issues, k>>
              ELSE /\ issues' = issues \o analyzer_issues.issues
                   /\ k' = k + 1
                   /\ UNCHANGED <<pc, result>>
    /\ UNCHANGED <<content, file_path, fixed_content, applied_fixes, origin, last,
                   caller, disk, backup>>
    /\ UNCHANGED <<analyzer_all_issues, calls, requests, directory, results, linter_all_issues, added_rules>>

(* a variant that adds the issues to self.all_issues instead of replacing it *)
AnalyzeReturnAccumulating ==
    /\ pc = "analyzing"
    /\ k > Len(analyzers_to_run)
    /\ result' = [returned |-> TRUE, issues |-> issues]
    /\ pc' = "done"
    /\ UNCHANGED <<content, file_path, issues, fixed_content, applied_fixes, k, origin,
                   last, caller, disk, backup>>
    /\ analyzer_all_issues' = analyzer_all_issues \o issues
    /\ UNCHANGED <<self_issues, calls, requests, directory, results, linter_all_issues, added_rules>>

(* return issues (file_analyzer.py:57-58) *)
AnalyzeReturn ==
    /\ pc = "analyzing"
    /\ k > Len(analyzers_to_run)
    /\ result' = [returned |-> TRUE, issues |-> issues]
    /\ pc' = "done"
    /\ UNCHANGED <<content, file_path, issues, fixed_content, applied_fixes, k, origin,
                   last, caller, disk, backup>>
    /\ analyzer_all_issues' = issues
    /\ UNCHANGED <<self_issues, calls, requests, directory, results, linter_all_issues, added_rules>>

NextAnalyze ==
    \/ AnalyzeContent \/ AnalyzeRead \/ AnalyzeReadError
    \/ RunAnalyzer \/ AnalyzeReturn

SpecAnalyze == InitAnalyze /\ [][NextAnalyze]_vars

-----------------------------------------------------------------------------
(* Properties of one_click_fix (Spec) and fix_file (SpecFile). *)

Returned == pc = "done" /\ caller = "one_click_fix"

(* C1: one_click_fix called with an empty issues list returns               *)
(* content_changed = false and fixed_content equal to the original content. *)
C1_EmptyIssuesLeaveContent ==
    (Returned /\ issues = <<>>) =>
        (~result.content_changed /\ result.fixed_content = result.original_content)

(* C2: every entry of applied_fixes carries a rule id, and that rule id is  *)
(* the rule id of an input issue whose auto_fixable flag is true.            *)
C2_EntriesComeFromAutoFixableIssues ==
    Returned =>
        \A j \in 1..Len(result.applied_fixes) :
            /\ result.applied_fixes[j].rule_id # NoRule
            /\ \E i \in 1..Len(issues) :
                /\ issues[i].rule_id = result.applied_fixes[j].rule_id
                /\ issues[i].auto_fixable

(* C3: completion_percentage is in [0, 100], and the number of              *)
(* applied_fixes entries never exceeds the number of input issues.           *)
C3_CompletionWithinBounds ==
    Returned =>
        /\ result.fix_statistics.completion_percentage \in 0..1000
        /\ Len(result.applied_fixes) <= Len(issues)

(* C4: for a non-empty issues list, improvement_score is in [0, 100].       *)
C4_ImprovementScoreWithinBounds ==
    (Returned /\ issues # <<>>) =>
        result.quality_improvement.improvement_score \in 0..1000

(* C6: in fix_file there is no state in which the file has been            *)
(* overwritten with the fixed content and the backup write has not yet been *)
(* attempted.                                                                *)
FileOverwritten ==
    /\ caller = "fix_file"
    /\ pc \in {"create_backup", "done"}
    /\ fixed_content # content
    /\ disk = File(fixed_content)

BackupAttempted == pc = "done" /\ result.file_modified

C6_BackupBeforeOverwrite == FileOverwritten => BackupAttempted

ManualCount(rule_id) ==
    Cardinality({i \in 1..Len(issues) : ~issues[i].auto_fixable /\ issues[i].rule_id = rule_id})

(* C7: every issue with auto_fixable = false has, in manual_suggestions,    *)
(* the Suggestion of its rule id, which counts it; no fix attempt is made   *)
(* for it and no applied_fixes entry originates from it.                     *)
C7_ManualIssuesAreSuggestedNotFixed ==
    /\ last.issue # 0 => issues[last.issue].auto_fixable
    /\ \A j \in 1..Len(origin) : origin[j] # 0 => issues[origin[j]].auto_fixable
    /\ Returned =>
        \A i \in 1..Len(issues) :
            ~issues[i].auto_fixable =>
                \E j \in 1..Len(result.manual_suggestions) :
                    LET sg == result.manual_suggestions[j]
                    IN  /\ sg.rule_id = issues[i].rule_id
                        /\ sg.issue_count = ManualCount(issues[i].rule_id)
                        /\ \E n \in 1..Len(sg.affected_lines) :
                            sg.affected_lines[n] = issues[i].line_number

(* a manual issue shares its rule id with an applied fix of another issue *)
C7_Witness ==
    /\ Returned
    /\ \E i \in 1..Len(issues), j \in 1..Len(applied_fixes) :
        /\ ~issues[i].auto_fixable
        /\ applied_fixes[j].rule_id = issues[i].rule_id

LineMatches(s, rule_id, n) ==
    /\ n <= Lines(s)
    /\ \E i \in 1..Len(split(s)[n]) : PatternMatches(rule_id, split(s)[n][i])

GenericApplies(s, issue) ==
    /\ DescriptionHas(issue.description, "semicolon")
    /\ issue.line_number <= Lines(s)
    /\ ~EndsWithSemicolon(split(s)[issue.line_number])

AttemptRecorded ==
    last.issue # 0 =>
        Len(applied_fixes) = last.fixes_before + (IF last.success THEN 1 ELSE 0)

(* C8: applied_fixes only contains fixes that were textually applied:      *)
(* every entry corresponds to a fix attempt for an issue, the attempt       *)
(* matched the issue's target line (the pattern of its rule and the rule's  *)
(* predicate, or the generic transform of a rule without a pattern) and     *)
(* changed the text; an attempt that did not match or whose predicate       *)
(* failed has no entry.                                                      *)
C8_EntriesAreAppliedAttempts ==
    /\ \A j \in 1..Len(origin) : origin[j] # 0
    /\ last.success =>
        /\ fixed_content # last.before
        /\ IF issues[last.issue].rule_id \in fix_patterns
           THEN /\ LineMatches(last.before, issues[last.issue].rule_id,
                               issues[last.issue].line_number)
                /\ Condition(issues[last.issue].rule_id, last.before)
           ELSE GenericApplies(last.before, issues[last.issue])
    /\ AttemptRecorded

FailureReasons == {"Pattern not found", "Condition not met", "Could not add semicolon",
                   "No generic fix available"}

(* C9: a failed fix attempt raises nothing, leaves the accumulated content  *)
(* unchanged and appends nothing to applied_fixes, and the remaining issues *)
(* are still attempted: the attempts go through auto_fixable_issues in      *)
(* order, to the end.                                                        *)
C9_FailedAttemptsAreDropped ==
    /\ (last.issue # 0 /\ ~last.success) =>
        /\ last.reason \in FailureReasons
        /\ fixed_content = last.before
        /\ Len(applied_fixes) = last.fixes_before
    /\ pc = "fixing" =>
        last.issue = (IF k > 1 THEN auto_fixable_issues[k - 1] ELSE 0)
    /\ pc = "done" => k = Len(auto_fixable_issues) + 1

(* the first attempt failed and the second one was applied *)
C9_Witness ==
    /\ Returned
    /\ Len(auto_fixable_issues) = 2
    /\ origin = <<auto_fixable_issues[2]>>

-----------------------------------------------------------------------------
(* Properties of analyze_file (SpecAnalyze). *)

(* C5: analyze_file never raises to its caller: whatever the file_path and  *)
(* the content (given, read from disk, or unreadable), the call ends by     *)
(* returning a list of issues, and no exception of an analyzer leaves it.   *)
C5_AnalyzeFileNeverRaises ==
    /\ pc # "raised"
    /\ pc = "done" /\ caller = "analyze_file" => result.returned

(* the analyzers the selection rule names for a path and a content *)
ExpectedAnalyzers(path, s) ==
    {a \in {"typescript", "playwright", "cucumber"} :
        \/ a = "typescript" /\ file_extension(path) \in {".ts", ".js"}
        \/ /\ a = "playwright"
           /\ file_extension(path) \in {".ts", ".js"}
           /\ \/ NameHas(path, ".spec.") \/ NameHas(path, ".test.")
              \/ HasFrameworkSignal(s)
        \/ /\ a = "cucumber"
           /\ \/ file_extension(path) = ".feature"
              \/ file_extension(path) \in {".ts", ".js"} /\ NameHas(path, "step")}

(* the analyzers analyze_file has called, the one that raised included *)
Called == SubSeq(analyzers_to_run, 1, IF pc = "raised" THEN k ELSE k - 1)

RECURSIVE ConcatIssues(_, _, _)
ConcatIssues(analyzers, s, path) ==
    IF analyzers = <<>> THEN <<>>
    ELSE analyzer_analyze_file(Head(analyzers), s, path).issues
         \o ConcatIssues(Tail(analyzers), s, path)

(* C10: when analyze_file has ended on a content it could read, the         *)
(* analyzers it ran are exactly those the selection rule names for the path *)
(* and the content, and the issues it returns are their lists concatenated  *)
(* (the empty list when no rule matches).                                   *)
C10_AllSelectedAnalyzersRun ==
    caller = "analyze_file" /\ pc \in {"done", "raised"} /\ k > 0 =>
        /\ {Called[i] : i \in 1..Len(Called)} = ExpectedAnalyzers(file_path, content)
        /\ result.returned => result.issues = ConcatIssues(Called, content, file_path)

-----------------------------------------------------------------------------
(* Properties of the manual suggestions one_click_fix returns (Spec). *)

ManualIndices == {i \in 1..Len(issues) : ~issues[i].auto_fixable}
ManualWithRule(rule_id) == {i \in ManualIndices : issues[i].rule_id = rule_id}
FirstManual(rule_id) ==
    CHOOSE i \in ManualWithRule(rule_id) : \A j \in ManualWithRule(rule_id) : i <= j

RECURSIVE SumIssueCounts(_)
SumIssueCounts(suggestions) ==
    IF suggestions = <<>> THEN 0
    ELSE Head(suggestions).issue_count + SumIssueCounts(Tail(suggestions))

(* C11: manual_suggestions holds exactly one Suggestion per distinct rule id *)
(* of the issues that are not auto-fixable, in the order in which the rule  *)
(* ids first occur; a Suggestion's issue_count is the number of those       *)
(* issues with its rule id, the counts sum to the number of issues that are *)
(* not auto-fixable, and its severity is that of the first issue of its     *)
(* group.                                                                    *)
C11_OneSuggestionPerManualRule ==
    Returned =>
        LET ms == result.manual_suggestions
        IN  /\ {ms[j].rule_id : j \in 1..Len(ms)} =
                    {issues[i].rule_id : i \in ManualIndices}
            /\ \A j1, j2 \in 1..Len(ms) :
                    j1 < j2 => FirstManual(ms[j1].rule_id) < FirstManual(ms[j2].rule_id)
            /\ \A j \in 1..Len(ms) :
                    /\ ms[j].issue_count = Cardinality(ManualWithRule(ms[j].rule_id))
                    /\ ms[j].severity = issues[FirstManual(ms[j].rule_id)].severity
            /\ SumIssueCounts(ms) = Cardinality(ManualIndices)

(* two issues of one rule id and different severities are grouped *)
C11_Witness ==
    /\ Returned
    /\ Len(issues) = 2
    /\ ManualIndices = {1, 2}
    /\ issues[1].rule_id = issues[2].rule_id
    /\ issues[1].severity # issues[2].severity
    /\ Len(result.manual_suggestions) = 1

-----------------------------------------------------------------------------
(* Repeated analyze_file calls on one FileAnalyzer instance. *)
MaxCalls == 3

RepeatPaths == {<<"a", ".spec", ".ts">>, <<"steps", ".ts">>, <<"a", ".feature">>}
RepeatContents == SeqsUpTo(AnalysisTokens \cup {NL}, MaxLen - 1)

InitRepeat ==
    /\ pc = "idle"
    /\ content = <<>>
    /\ file_path = <<>>
    /\ issues = <<>>
    /\ fixed_content = <<>>
    /\ applied_fixes = <<>>
    /\ k = 0
    /\ origin = <<>>
    /\ last = NoAttempt
    /\ result = NoResult
    /\ caller = "analyze_file"
    /\ disk = NoFile
    /\ backup = NoFile
    /\ self_issues = [a \in Analyzers |-> <<>>]
    /\ analyzer_all_issues = <<>>
    /\ calls = <<>>
    /\ requests = <<>>
    /\ directory = NoDirectory
    /\ results = EmptyMap
    /\ linter_all_issues = <<>>
    /\ added_rules = <<>>

(* the caller takes the outcome of the call that has ended, if any, and calls *)
(* analyze_file(file_path, content) on the same instance (file_analyzer.py:47-51) *)
RepeatCall ==
    /\ pc \in {"idle", "done", "raised"}
    /\ Len(calls) + (IF pc = "idle" THEN 0 ELSE 1) < MaxCalls
    /\ calls' = IF pc = "idle" THEN calls
                ELSE Append(calls, [file_path |-> file_path, content |-> content,
                                    outcome |-> result])
    /\ \E p \in RepeatPaths, c \in RepeatContents :
        /\ file_path' = p
        /\ content' = c
    /\ issues' = <<>>
    /\ k' = 1
    /\ result' = NoResult
    /\ pc' = "analyzing"
    /\ UNCHANGED <<fixed_content, applied_fixes, origin, last, caller, disk, backup>>
    /\ UNCHANGED <<self_issues, analyzer_all_issues, requests, directory, results, linter_all_issues, added_rules>>

NextRepeat == RepeatCall \/ RunAnalyzer \/ AnalyzeReturn

SpecRepeat == InitRepeat /\ [][NextRepeat]_vars

(* C12: on one FileAnalyzer instance, a call of analyze_file for a file path *)
(* and a content ends as every earlier call for the same path and content    *)
(* ended, with the same ordered list of issues, whatever was analysed on the *)
(* instance in between.                                                      *)
C12_RepeatedCallsAgree ==
    pc \in {"done", "raised"} =>
        \A i \in 1..Len(calls) :
            calls[i].file_path = file_path /\ calls[i].content = content
                => calls[i].outcome = result

(* the same file is analysed again after another file, both with issues *)
C12_Witness ==
    /\ pc = "done"
    /\ Len(calls) = 2
    /\ calls[1].file_path = file_path /\ calls[1].content = content
    /\ calls[2].file_path # file_path
    /\ calls[2].outcome.returned /\ calls[2].outcome.issues # <<>>
    /\ result.issues # <<>>
    /\ \E a \in Analyzers :
        /\ a \in {analyzers_to_run[i] : i \in 1..Len(analyzers_to_run)}
        /\ \E i \in 1..Len(_get_analyzers_for_file(calls[2].file_path, calls[2].content)) :
                _get_analyzers_for_file(calls[2].file_path, calls[2].content)[i] = a

-----------------------------------------------------------------------------
(* The A2A server: create_fastapi_app makes one CodeReviewAgent, whose      *)
(* FileAnalyzer and FixManager serve every request.  The handlers are       *)
(* coroutines of one event loop, and analyze_code and fix_code contain no   *)
(* await: requests arrive at any time, and the loop runs one handler to its *)
(* response before it starts the next.                                      *)
MaxRequests == 2

RequestKinds == {"analyze", "fix"}

(* FileAnalyzer.get_analysis_summary, without the scores read from the disk *)
get_analysis_summary(stored) ==
    IF stored = <<>> THEN [total_files_analyzed |-> 0, total_issues |-> 0]
    ELSE [total_files_analyzed |-> 1,
          total_issues |-> Len(stored),
          severity_breakdown |->
            [sv \in {"error", "warning", "info"} |->
                Cardinality({i \in 1..Len(stored) : stored[i].severity = sv})],
          auto_fixable_issues |->
            Cardinality({i \in 1..Len(stored) : stored[i].auto_fixable})]

(* the request the event loop is serving *)
Serving == {r \in 1..Len(requests) : requests[r].state \in {"serving", "fixing"}}

InitServe ==
    /\ pc = "idle"
    /\ content = <<>>
    /\ file_path = <<>>
    /\ issues = <<>>
    /\ fixed_content = <<>>
    /\ applied_fixes = <<>>
    /\ k = 0
    /\ origin = <<>>
    /\ last = NoAttempt
    /\ result = NoResult
    /\ caller = "analyze_code"
    /\ disk = NoFile
    /\ backup = NoFile
    /\ self_issues = [a \in Analyzers |-> <<>>]
    /\ analyzer_all_issues = <<>>
    /\ calls = <<>>
    /\ requests = <<>>
    /\ directory = NoDirectory
    /\ results = EmptyMap
    /\ linter_all_issues = <<>>
    /\ added_rules = <<>>

(* a POST /analyze or POST /fix request arrives (a2a_server.py:489-510) *)
Receive ==
    /\ Len(requests) < MaxRequests
    /\ \E kind \in RequestKinds, p \in RepeatPaths, c \in RepeatContents :
        requests' = Append(requests,
            [kind |-> kind, file_path |-> p, content |-> c, state |-> "pending",
             analysed |-> <<>>, response |-> NoResult])
    /\ UNCHANGED <<pc, content, file_path, issues, fixed_content, applied_fixes, k,
                   origin, last, result, caller, disk, backup>>
    /\ UNCHANGED <<self_issues, analyzer_all_issues, calls, directory, results, linter_all_issues, added_rules>>

(* the event loop starts the handler of a pending request, which calls      *)
(* self.file_analyzer.analyze_file (a2a_server.py:78-84, 124-130)           *)
StartServe ==
    /\ pc = "idle"
    /\ \E r \in 1..Len(requests) :
        /\ requests[r].state = "pending"
        /\ requests' = [requests EXCEPT ![r].state = "serving"]
        /\ file_path' = requests[r].file_path
        /\ content' = requests[r].content
        /\ caller' = IF requests[r].kind = "analyze" THEN "analyze_code" ELSE "fix_code"
    /\ issues' = <<>>
    /\ k' = 1
    /\ result' = NoResult
    /\ pc' = "analyzing"
    /\ UNCHANGED <<fixed_content, applied_fixes, origin, last, disk, backup>>
    /\ UNCHANGED <<self_issues, analyzer_all_issues, calls, directory, results, linter_all_issues, added_rules>>

(* analyze_code builds its response from the issues analyze_file returned   *)
(* and from get_analysis_summary (a2a_server.py:86-103); recommendations, a *)
(* text made from the same issues, is left out                              *)
RespondAnalyze ==
    /\ pc = "done"
    /\ caller = "analyze_code"
    /\ \E r \in Serving :
        requests' = [requests EXCEPT
            ![r].state = "responded",
            ![r].analysed = result.issues,
            ![r].response =
                [success |-> TRUE,
                 file_path |-> file_path,
                 total_issues |-> Len(result.issues),
                 issues |-> result.issues,
                 summary |-> get_analysis_summary(analyzer_all_issues),
                 auto_fixable_count |->
                    Cardinality({i \in 1..Len(result.issues) :
                                    result.issues[i].auto_fixable})]]
    /\ pc' = "idle"
    /\ UNCHANGED <<content, file_path, issues, fixed_content, applied_fixes, k,
                   origin, last, result, caller, disk, backup>>
    /\ UNCHANGED <<self_issues, analyzer_all_issues, calls, directory, results, linter_all_issues, added_rules>>

(* an exception of analyze_file is caught by the handler, which answers     *)
(* with the error (a2a_server.py:105-110, 150-155)                          *)
RespondError ==
    /\ pc = "raised"
    /\ \E r \in Serving :
        requests' = [requests EXCEPT
            ![r].state = "responded",
            ![r].response = [success |-> FALSE, error |-> result.exception]]
    /\ pc' = "idle"
    /\ UNCHANGED <<content, file_path, issues, fixed_content, applied_fixes, k,
                   origin, last, result, caller, disk, backup>>
    /\ UNCHANGED <<self_issues, analyzer_all_issues, calls, directory, results, linter_all_issues, added_rules>>

(* fix_code passes the issues analyze_file returned to one_click_fix        *)
(* (a2a_server.py:132-137; auto_fixer.py:93-94)                             *)
FixCodeCall ==
    /\ pc = "done"
    /\ caller = "fix_code"
    /\ \E r \in Serving :
        /\ requests[r].state = "serving"
        /\ requests' = [requests EXCEPT ![r].state = "fixing",
                                        ![r].analysed = result.issues]
    /\ issues' = result.issues
    /\ fixed_content' = content
    /\ applied_fixes' = <<>>
    /\ origin' = <<>>
    /\ last' = NoAttempt
    /\ pc' = "linter"
    /\ UNCHANGED <<content, file_path, k, result, caller, disk, backup>>
    /\ UNCHANGED <<self_issues, analyzer_all_issues, calls, directory, results, linter_all_issues, added_rules>>

(* fix_code builds its response from the result of one_click_fix            *)
(* (a2a_server.py:139-148)                                                  *)
RespondFix ==
    /\ pc = "done"
    /\ caller = "fix_code"
    /\ \E r \in Serving :
        /\ requests[r].state = "fixing"
        /\ requests' = [requests EXCEPT
            ![r].state = "responded",
            ![r].response =
                [success |-> TRUE,
                 original_content |-> content,
                 fixed_content |-> result.fixed_content,
                 content_changed |-> result.content_changed,
                 applied_fixes |-> result.applied_fixes,
                 manual_suggestions |-> result.manual_suggestions,
                 fix_statistics |-> result.fix_statistics,
                 next_steps |-> result.next_steps]]
    /\ pc' = "idle"
    /\ UNCHANGED <<content, file_path, issues, fixed_content, applied_fixes, k,
                   origin, last, result, caller, disk, backup>>
    /\ UNCHANGED <<self_issues, analyzer_all_issues, calls, directory, results, linter_all_issues, added_rules>>

NextServe ==
    \/ Receive \/ StartServe
    \/ RunAnalyzer \/ AnalyzeReturn
    \/ RespondAnalyze \/ RespondError
    \/ FixCodeCall \/ LinterFix \/ AttemptFix \/ Return \/ RespondFix

SpecServe == InitServe /\ [][NextServe]_vars

(* what a FileAnalyzer that has served nothing else makes of a request *)
FreshRaises(path, s) ==
    \E i \in 1..Len(_get_analyzers_for_file(path, s)) :
        analyzer_analyze_file(_get_analyzers_for_file(path, s)[i], s, path).raised
FreshIssues(path, s) == ConcatIssues(_get_analyzers_for_file(path, s), s, path)

(* C13: under every interleaving of analyze and fix requests, the response  *)
(* to a request is computed from the request's own file_path and content    *)
(* alone: the issues are those a FileAnalyzer that served no other request  *)
(* finds, the summary is the summary of those issues, and a fix works on    *)
(* the request's content and those issues.                                  *)
C13_RequestsAreIsolated ==
    \A r \in 1..Len(requests) :
        requests[r].state = "responded" =>
            LET path == requests[r].file_path
                s == requests[r].content
                response == requests[r].response
            IN  IF FreshRaises(path, s)
                THEN response = [success |-> FALSE, error |-> "re.error"]
                ELSE /\ response.success
                     /\ requests[r].analysed = FreshIssues(path, s)
                     /\ requests[r].kind = "analyze" =>
                            /\ response.file_path = path
                            /\ response.issues = FreshIssues(path, s)
                            /\ response.summary = get_analysis_summary(FreshIssues(path, s))
                     /\ requests[r].kind = "fix" =>
                            /\ response.original_content = s
                            /\ response.fix_statistics.total_issues
                                    = Len(FreshIssues(path, s))

(* an analyze request is answered after a fix request that arrived later, *)
(* for another file in which other issues were found                      *)
C13_Witness ==
    /\ Len(requests) = 2
    /\ requests[1].state = "responded" /\ requests[2].state = "responded"
    /\ requests[1].kind = "analyze" /\ requests[2].kind = "fix"
    /\ requests[1].file_path # requests[2].file_path
    /\ requests[1].response.success /\ requests[2].response.success
    /\ requests[2].analysed # <<>>
    /\ requests[1].response.issues # requests[2].analysed
    /\ analyzer_all_issues = requests[1].response.issues

-----------------------------------------------------------------------------
(* FileAnalyzer.analyze_directory *)
MaxFiles == 2

(* paths the default file_patterns match *)
DirectoryPaths == {<<"a", ".ts">>, <<"steps", ".ts">>, <<"a", ".feature">>}

(* matching_files: the files the patterns find, a file once for each pattern *)
(* that matches it, each readable with a text or unreadable                   *)
MatchingFiles ==
    {files \in SeqsUpTo([path : DirectoryPaths,
                         file : {File(c) : c \in AnalysisContents} \cup {NoFile}], MaxFiles) :
        \A i, j \in 1..Len(files) : files[i].path = files[j].path => files[i] = files[j]}

Directories == {[exists |-> TRUE, files |-> files] : files \in MatchingFiles}
                \cup {NoDirectory}

(* results[key] = value *)
Store(map, key, value) ==
    [q \in DOMAIN map \cup {key} |-> IF q = key THEN value ELSE map[q]]

SystemIssue(rule_id, description) == _add_issue(rule_id, description, "error", 1, FALSE)

InitDirectory ==
    /\ pc = "idle"
    /\ content = <<>>
    /\ file_path = <<>>
    /\ issues = <<>>
    /\ fixed_content = <<>>
    /\ applied_fixes = <<>>
    /\ k = 0
    /\ origin = <<>>
    /\ last = NoAttempt
    /\ result = NoResult
    /\ caller = "analyze_directory"
    /\ disk = NoFile
    /\ backup = NoFile
    /\ self_issues = [a \in Analyzers |-> <<>>]
    /\ analyzer_all_issues = <<>>
    /\ calls = <<>>
    /\ requests = <<>>
    /\ directory \in Directories
    /\ results = EmptyMap
    /\ linter_all_issues = <<>>
    /\ added_rules = <<>>

(* the directory does not exist (file_analyzer.py:81-88) *)
DirectoryNotFound ==
    /\ pc = "idle"
    /\ ~directory.exists
    /\ results' = Store(results, <<"error">>,
                        <<SystemIssue("directory-not-found", "Directory not found")>>)
    /\ result' = [returned |-> TRUE, results |-> results']
    /\ pc' = "returned"
    /\ UNCHANGED <<content, file_path, issues, fixed_content, applied_fixes, k,
                   origin, last, caller, disk, backup>>
    /\ UNCHANGED <<self_issues, analyzer_all_issues, calls, requests, directory,
                   linter_all_issues, added_rules>>

(* the next matching file: analyze_file(str(file_path)) reads it            *)
(* (file_analyzer.py:96-99, 33-36, 47-51)                                   *)
DirectoryAnalyzeFile ==
    /\ pc = "idle"
    /\ directory.exists
    /\ Len(calls) < Len(directory.files)
    /\ directory.files[Len(calls) + 1].file.exists
    /\ file_path' = directory.files[Len(calls) + 1].path
    /\ disk' = directory.files[Len(calls) + 1].file
    /\ content' = directory.files[Len(calls) + 1].file.text
    /\ issues' = <<>>
    /\ k' = 1
    /\ result' = NoResult
    /\ pc' = "analyzing"
    /\ UNCHANGED <<fixed_content, applied_fixes, origin, last, caller, backup>>
    /\ UNCHANGED instance_vars

(* the next matching file cannot be read: analyze_file returns the          *)
(* file-read-error issue (file_analyzer.py:96-99, 37-45)                    *)
DirectoryReadError ==
    /\ pc = "idle"
    /\ directory.exists
    /\ Len(calls) < Len(directory.files)
    /\ ~directory.files[Len(calls) + 1].file.exists
    /\ file_path' = directory.files[Len(calls) + 1].path
    /\ disk' = NoFile
    /\ result' = [returned |-> TRUE, issues |-> <<FileReadError>>]
    /\ pc' = "done"
    /\ UNCHANGED <<content, issues, fixed_content, applied_fixes, k, origin, last,
                   caller, backup>>
    /\ UNCHANGED instance_vars

(* a variant that stores the issue list of every file, empty or not *)
DirectoryCollectAll ==
    /\ pc \in {"done", "raised"}
    /\ results' = IF pc = "raised"
                  THEN Store(results, file_path,
                             <<SystemIssue("analysis-error", "Analysis failed")>>)
                  ELSE Store(results, file_path, result.issues)
    /\ calls' = Append(calls, result)
    /\ pc' = "idle"
    /\ UNCHANGED <<content, file_path, issues, fixed_content, applied_fixes, k,
                   origin, last, result, caller, disk, backup>>
    /\ UNCHANGED <<self_issues, analyzer_all_issues, requests, directory, linter_all_issues, added_rules>>

(* analyze_file is back: its issues are stored when there are any, and the  *)
(* analysis-error issue when it raised (file_analyzer.py:98-110)            *)
DirectoryCollect ==
    /\ pc \in {"done", "raised"}
    /\ results' = IF pc = "raised"
                  THEN Store(results, file_path,
                             <<SystemIssue("analysis-error", "Analysis failed")>>)
                  ELSE IF result.issues # <<>>
                       THEN Store(results, file_path, result.issues)
                       ELSE results
    /\ calls' = Append(calls, result)
    /\ pc' = "idle"
    /\ UNCHANGED <<content, file_path, issues, fixed_content, applied_fixes, k,
                   origin, last, result, caller, disk, backup>>
    /\ UNCHANGED <<self_issues, analyzer_all_issues, requests, directory, linter_all_issues, added_rules>>

(* return results (file_analyzer.py:112) *)
DirectoryReturn ==
    /\ pc = "idle"
    /\ directory.exists
    /\ Len(calls) = Len(directory.files)
    /\ result' = [returned |-> TRUE, results |-> results]
    /\ pc' = "returned"
    /\ UNCHANGED <<content, file_path, issues, fixed_content, applied_fixes, k,
                   origin, last, caller, disk, backup>>
    /\ UNCHANGED instance_vars

NextDirectory ==
    \/ DirectoryNotFound \/ DirectoryAnalyzeFile \/ DirectoryReadError
    \/ RunAnalyzer \/ AnalyzeReturn
    \/ DirectoryCollect \/ DirectoryReturn

SpecDirectory == InitDirectory /\ [][NextDirectory]_vars

(* C14: the map analyze_directory builds and returns never has a key whose  *)
(* issue list is empty: a file without issues is left out, and the entries  *)
(* for a failed analysis and for a missing directory hold one issue.        *)
C14_NoEmptyIssueList ==
    /\ \A key \in DOMAIN results : results[key] # <<>>
    /\ pc = "returned" => \A key \in DOMAIN result.results : result.results[key] # <<>>

(* two files were analysed: one had no issues and has no key, the analysis  *)
(* of the other raised and its key holds the analysis-error issue           *)
C14_Witness ==
    /\ pc = "returned"
    /\ directory.exists
    /\ Len(calls) = 2
    /\ \E i, j \in 1..2 :
        /\ calls[i].returned /\ calls[i].issues = <<>>
        /\ directory.files[i].path \notin DOMAIN result.results
        /\ ~calls[j].returned
        /\ directory.files[j].path \in DOMAIN result.results
        /\ result.results[directory.files[j].path][1].rule_id = "analysis-error"

(* the issues analyze_file and analyze_directory have emitted: the list     *)
(* being built, the list returned and the lists in the map                  *)
EmittedIssues ==
    {issues[i] : i \in 1..Len(issues)}
    \cup (IF pc \in {"done", "idle"} /\ result # NoResult /\ result.returned
          THEN {result.issues[i] : i \in 1..Len(result.issues)} ELSE {})
    \cup UNION {{results[key][i] : i \in 1..Len(results[key])} : key \in DOMAIN results}

(* C15: every issue that analyze_file or analyze_directory emits, the       *)
(* system issues included, has a severity among error, warning and info     *)
(* and a line number of at least 1.                                         *)
C15_SeverityAndLineNumber ==
    \A issue \in EmittedIssues :
        /\ issue.severity \in {"error", "warning", "info"}
        /\ issue.line_number >= 1

(* the map returned holds an issue of an analyzer on line 2 and the         *)
(* analysis-error issue of a file whose analysis raised                     *)
C15_Witness ==
    /\ pc = "returned"
    /\ directory.exists
    /\ \E issue \in EmittedIssues : issue.line_number = 2
    /\ \E issue \in EmittedIssues : issue.rule_id = "analysis-error"
    /\ \E issue \in EmittedIssues : issue.severity = "warning"

-----------------------------------------------------------------------------
(* LinterManager.lint_content *)
LintTokens == {LetStmt, LogStmt, LogNoSemi, SleepStmt, PlaywrightComment}
LintContents == SeqsUpTo(LintTokens \cup {NL}, MaxLen)

(* `'.spec.ts' in file_path or '.test.ts' in file_path` *)
IsTestFile(path) ==
    \E i \in 1..(Len(path) - 1) : path[i] \in {".spec", ".test"} /\ path[i + 1] = ".ts"

(* custom_rules: the rules whose pattern matches a statement of LintTokens, *)
(* in list order                                                            *)
custom_rules == <<"pw-no-sleep-in-tests", "ts-no-console-log", "pw-no-console-in-tests">>

RuleCategory(rule_id) == IF rule_id = "ts-no-console-log" THEN "typescript" ELSE "playwright"
RuleSeverity(rule_id) == IF rule_id = "pw-no-sleep-in-tests" THEN "error" ELSE "warning"
RuleAutoFixable(rule_id) == rule_id # "pw-no-sleep-in-tests"

RuleMessage(rule_id) ==
    CASE rule_id = "pw-no-sleep-in-tests" ->
            "Avoid sleep/setTimeout in tests, use Playwright waiting methods"
      [] rule_id = "ts-no-console-log" -> "Remove console.log statements before committing"
      [] OTHER -> "Avoid using console.log() in Playwright tests."

(* the message of pw-no-console-in-tests is abridged to its first sentence *)

(* re.finditer(pattern, line, re.IGNORECASE) finds a match in the statement *)
RuleMatches(rule_id, stmt) ==
    IF rule_id = "pw-no-sleep-in-tests" THEN stmt = SleepStmt
    ELSE stmt \in {LogStmt, LogNoSemi}

_is_applicable(rule_id, path) ==
    IF RuleCategory(rule_id) = "playwright" THEN IsTestFile(path)
    ELSE /\ EndsWith(path, {".ts", ".js"})
         /\ ~(rule_id = "ts-no-console-log" /\ IsTestFile(path))

_get_applicable_rules(path) == SelectSeq(custom_rules, LAMBDA rule_id : _is_applicable(rule_id, path))

(* _is_in_comment: the match starts after a `//` of its line *)
_is_in_comment(s, i) ==
    \E j \in 1..(i - 1) :
        /\ s[j] = PlaywrightComment
        /\ \A m \in j..i : s[m] # NL

(* _apply_rule: the matches of one rule, line by line *)
RECURSIVE _apply_rule(_, _, _)
_apply_rule(rule_id, s, i) ==
    IF i > Len(s) THEN <<>>
    ELSE (IF RuleMatches(rule_id, s[i]) /\ ~_is_in_comment(s, i)
          THEN <<_add_issue(rule_id, RuleMessage(rule_id), RuleSeverity(rule_id),
                            LineOf(s, i), RuleAutoFixable(rule_id))>>
          ELSE <<>>) \o _apply_rule(rule_id, s, i + 1)

RECURSIVE ApplyRules(_, _)
ApplyRules(rules, s) ==
    IF rules = <<>> THEN <<>>
    ELSE _apply_rule(Head(rules), s, 1) \o ApplyRules(Tail(rules), s)

CustomLinter_lint_content(s, path) == ApplyRules(_get_applicable_rules(path), s)

(* What subprocess.run does with an external program: it exits with a code, *)
(* it exceeds the timeout, or the program is not installed.                 *)
ProcessOutcomes == {"exit0", "exit1", "exit2", "timeout", "missing"}
NotRun == "none"

(* BaseLinter._run_command: TimeoutExpired and any other exception become   *)
(* return_code 1 with an empty stdout                                       *)
_run_command(outcome) ==
    [return_code |-> CASE outcome = "exit0" -> 0
                       [] outcome = "exit2" -> 2
                       [] OTHER -> 1,
     has_stdout |-> outcome \in {"exit0", "exit1", "exit2"}]

(* is_available: `<program> --version` returns 0 *)
is_available(version) == _run_command(version).return_code = 0

(* the messages of the JSON that ESLint prints, as issues *)
ESLintOutputs ==
    {<<>>, <<_add_issue("no-var", "Unexpected var, use let or const instead.", "error", 1, TRUE)>>}

(* _parse_eslint_output: an empty stdout is not JSON and gives no issues *)
_parse_eslint_output(run_result, stdout) == IF run_result.has_stdout THEN stdout ELSE <<>>

ESLintLinter_lint_content(version, run, stdout) ==
    IF ~is_available(version)
    THEN <<_add_issue("eslint-not-available", "ESLint is not available", "warning", 1, FALSE)>>
    ELSE LET run_result == _run_command(run)
         IN  IF run_result.return_code \in {0, 1}
             THEN _parse_eslint_output(run_result, stdout)
             ELSE <<_add_issue("eslint-error", "ESLint error", "error", 1, FALSE)>>

PrettierLinter_lint_content(version, run) ==
    IF ~is_available(version)
    THEN <<_add_issue("prettier-not-available", "Prettier is not available", "warning", 1, FALSE)>>
    ELSE IF _run_command(run).return_code # 0
         THEN <<_add_issue("prettier-formatting",
                           "File is not properly formatted according to Prettier rules",
                           "warning", 1, TRUE)>>
         ELSE <<>>

(* _get_applicable_linters as the list it is *)
linters_to_run(path) ==
    <<"custom">> \o (IF _should_run_eslint(path) THEN <<"eslint">> ELSE <<>>)
                 \o (IF _should_run_prettier(path) THEN <<"prettier">> ELSE <<>>)

(* the record of one linter run: the outcomes of its two subprocesses and   *)
(* the issues its lint_content returned                                     *)
LinterRun(linter_name, version, run, linter_issues) ==
    [linter |-> linter_name, version |-> version, run |-> run, issues |-> linter_issues]

InitLint ==
    /\ pc = "idle"
    /\ content = <<>>
    /\ file_path = <<>>
    /\ issues = <<>>
    /\ fixed_content = <<>>
    /\ applied_fixes = <<>>
    /\ k = 0
    /\ origin = <<>>
    /\ last = NoAttempt
    /\ result = NoResult
    /\ caller = "lint_content"
    /\ disk = NoFile
    /\ backup = NoFile
    /\ self_issues = [a \in Analyzers |-> <<>>]
    /\ analyzer_all_issues = <<>>
    /\ calls = <<>>
    /\ requests = <<>>
    /\ directory = NoDirectory
    /\ results = EmptyMap
    /\ linter_all_issues = <<>>
    /\ added_rules = <<>>

(* lint_content(content, file_path) (linter_manager.py:33-37) *)
LintCall ==
    /\ pc = "idle"
    /\ \E p \in AnalysisPaths, c \in LintContents :
        /\ file_path' = p
        /\ content' = c
    /\ issues' = <<>>
    /\ k' = 1
    /\ pc' = "linting"
    /\ UNCHANGED <<fixed_content, applied_fixes, origin, last, result, caller, disk, backup>>
    /\ UNCHANGED instance_vars

(* one iteration of the loop over linters: the custom linter *)
RunCustom ==
    /\ pc = "linting"
    /\ k <= Len(linters_to_run(file_path))
    /\ linters_to_run(file_path)[k] = "custom"
    /\ LET linter_issues == CustomLinter_lint_content(content, file_path)
       IN  /\ issues' = issues \o linter_issues
           /\ last' = LinterRun("custom", NotRun, NotRun, linter_issues)
    /\ k' = k + 1
    /\ UNCHANGED <<pc, content, file_path, fixed_content, applied_fixes, origin, result,
                   caller, disk, backup>>
    /\ UNCHANGED instance_vars

(* one iteration of the loop over linters: ESLint, whose lint run happens   *)
(* only when `eslint --version` succeeded                                   *)
RunESLint ==
    /\ pc = "linting"
    /\ k <= Len(linters_to_run(file_path))
    /\ linters_to_run(file_path)[k] = "eslint"
    /\ _should_run_eslint(file_path)
    /\ \E version \in {"exit0", "timeout", "missing"},
          run \in ProcessOutcomes \cup {NotRun}, stdout \in ESLintOutputs :
        /\ run = NotRun <=> ~is_available(version)
        /\ stdout # <<>> => run \in {"exit0", "exit1"}
        /\ LET linter_issues == ESLintLinter_lint_content(version, run, stdout)
           IN  /\ issues' = issues \o linter_issues
               /\ last' = LinterRun("eslint", version, run, linter_issues)
    /\ k' = k + 1
    /\ UNCHANGED <<pc, content, file_path, fixed_content, applied_fixes, origin, result,
                   caller, disk, backup>>
    /\ UNCHANGED instance_vars

(* one iteration of the loop over linters: Prettier *)
RunPrettier ==
    /\ pc = "linting"
    /\ k <= Len(linters_to_run(file_path))
    /\ linters_to_run(file_path)[k] = "prettier"
    /\ _should_run_prettier(file_path)
    /\ \E version \in {"exit0", "timeout", "missing"}, run \in ProcessOutcomes \cup {NotRun} :
        /\ run = NotRun <=> ~is_available(version)
        /\ LET linter_issues == PrettierLinter_lint_content(version, run)
           IN  /\ issues' = issues \o linter_issues
               /\ last' = LinterRun("prettier", version, run, linter_issues)
    /\ k' = k + 1
    /\ UNCHANGED <<pc, content, file_path, fixed_content, applied_fixes, origin, result,
                   caller, disk, backup>>
    /\ UNCHANGED instance_vars

(* self.all_issues = all_issues; return all_issues (linter_manager.py:64-65) *)
LintReturn ==
    /\ pc = "linting"
    /\ k > Len(linters_to_run(file_path))
    /\ linter_all_issues' = issues
    /\ result' = [returned |-> TRUE, issues |-> issues]
    /\ pc' = "done"
    /\ UNCHANGED <<content, file_path, issues, fixed_content, applied_fixes, k, origin,
                   last, caller, disk, backup>>
    /\ UNCHANGED <<self_issues, analyzer_all_issues, calls, requests, directory, results,
                   added_rules>>

NextLint == LintCall \/ RunCustom \/ RunESLint \/ RunPrettier \/ LintReturn

SpecLint == InitLint /\ [][NextLint]_vars

-----------------------------------------------------------------------------
(* the issues the linter that ran last has returned from lint_content *)
LastLinterIssues(linter_name) ==
    IF "linter" \in DOMAIN last /\ last.linter = linter_name THEN last.issues ELSE <<>>

(* C16: every rule id that an analyzer or the custom linter emits on an     *)
(* issue with auto_fixable = true has an entry in the pattern table of the  *)
(* AutoFixer.                                                               *)
C16_AutoFixableRuleHasPattern ==
    /\ \A a \in Analyzers : \A i \in 1..Len(self_issues[a]) :
          self_issues[a][i].auto_fixable => self_issues[a][i].rule_id \in fix_patterns
    /\ \A i \in 1..Len(LastLinterIssues("custom")) :
          LastLinterIssues("custom")[i].auto_fixable
              => LastLinterIssues("custom")[i].rule_id \in fix_patterns

(* C17: when a subprocess of ESLint or Prettier exceeds its timeout, the    *)
(* call fails softly: lint_content of that linter raises nothing and        *)
(* contributes no issue.                                                    *)
C17_TimeoutIsSoftFailure ==
    ("linter" \in DOMAIN last /\ (last.version = "timeout" \/ last.run = "timeout"))
        => (pc # "raised" /\ last.issues = <<>>)

-----------------------------------------------------------------------------
(* CustomLinter.add_custom_rule *)
MaxRules == 2

required_fields == <<"id", "pattern", "message", "severity", "category">>
OptionalFields == {"auto_fixable", "suggestion"}
Range(seq) == {seq[i] : i \in 1..Len(seq)}

(* a rule is a dictionary: the model keeps the keys it has *)
Rules == SUBSET (Range(required_fields) \cup OptionalFields)

(* all(field in rule for field in required_fields) *)
HasRequiredFields(rule) == \A i \in 1..Len(required_fields) : required_fields[i] \in rule

(* ValueError(f"Rule must contain all required fields: {required_fields}") *)
RuleValueError == [returned |-> FALSE, exception |-> "ValueError", listed |-> required_fields]

InitRules ==
    /\ pc = "idle"
    /\ content = <<>>
    /\ file_path = <<>>
    /\ issues = <<>>
    /\ fixed_content = <<>>
    /\ applied_fixes = <<>>
    /\ k = 0
    /\ origin = <<>>
    /\ last = NoAttempt
    /\ result = NoResult
    /\ caller = "add_custom_rule"
    /\ disk = NoFile
    /\ backup = NoFile
    /\ self_issues = [a \in Analyzers |-> <<>>]
    /\ analyzer_all_issues = <<>>
    /\ calls = <<>>
    /\ requests = <<>>
    /\ directory = NoDirectory
    /\ results = EmptyMap
    /\ linter_all_issues = <<>>
    /\ added_rules = <<>>

(* add_custom_rule(rule) with every required field: the rule is appended *)
AddCustomRule ==
    /\ Len(added_rules) < MaxRules
    /\ \E rule \in Rules :
        /\ HasRequiredFields(rule)
        /\ last' = [rule |-> rule, rules_before |-> added_rules]
        /\ added_rules' = Append(added_rules, rule)
    /\ result' = [returned |-> TRUE]
    /\ pc' = "done"
    /\ UNCHANGED <<content, file_path, issues, fixed_content, applied_fixes, k, origin,
                   caller, disk, backup>>
    /\ UNCHANGED <<self_issues, analyzer_all_issues, calls, requests, directory, results,
                   linter_all_issues>>

(* add_custom_rule(rule) without a required field: ValueError *)
AddCustomRuleRejected ==
    /\ \E rule \in Rules :
        /\ ~HasRequiredFields(rule)
        /\ last' = [rule |-> rule, rules_before |-> added_rules]
    /\ result' = RuleValueError
    /\ pc' = "raised"
    /\ UNCHANGED <<content, file_path, issues, fixed_content, applied_fixes, k, origin,
                   caller, disk, backup>>
    /\ UNCHANGED instance_vars

NextRules == AddCustomRule \/ AddCustomRuleRejected

SpecRules == InitRules /\ [][NextRules]_vars

(* C18: registering a rule that lacks a required field fails at once with   *)
(* an error that lists the missing required fields and leaves the rule list *)
(* unchanged; a rule with every required field is appended to the list.     *)
C18_AddCustomRuleValidates ==
    "rule" \in DOMAIN last =>
        IF HasRequiredFields(last.rule)
        THEN pc = "done" /\ added_rules = Append(last.rules_before, last.rule)
        ELSE /\ pc = "raised"
             /\ added_rules = last.rules_before
             /\ Range(result.listed) = Range(required_fields) \ last.rule

-----------------------------------------------------------------------------
(* C19: the output of CustomLinter.fix_content, the first step of the       *)
(* Auto-Fixer, has no console call left: every console statement that the   *)
(* pw-no-console-in-tests rule reports is removed by the fix.               *)
C19_NoConsoleCallAfterLinterFix ==
    (caller = "one_click_fix" /\ pc = "fixing" /\ k = 1)
        => \A i \in 1..Len(fixed_content) :
              ~RuleMatches("pw-no-console-in-tests", fixed_content[i])

-----------------------------------------------------------------------------
(* CodeReviewAgent.fix_code on one file: analyze_file, then one_click_fix   *)
(* with the issues it returned.                                             *)
MaxSymbols == 3

PreferConstTokens == {LetStmt, AssignStmt, CompoundStmt, IncrementStmt}
PreferConstContents == SeqsUpTo(PreferConstTokens \cup {NL}, MaxSymbols)
PreferConstPaths == {<<"a", ".ts">>}

InitPreferConst ==
    /\ pc = "idle"
    /\ content = <<>>
    /\ file_path = <<>>
    /\ issues = <<>>
    /\ fixed_content = <<>>
    /\ applied_fixes = <<>>
    /\ k = 0
    /\ origin = <<>>
    /\ last = NoAttempt
    /\ result = NoResult
    /\ caller = "fix_code"
    /\ disk = NoFile
    /\ backup = NoFile
    /\ self_issues = [a \in Analyzers |-> <<>>]
    /\ analyzer_all_issues = <<>>
    /\ calls = <<>>
    /\ requests = <<>>
    /\ directory = NoDirectory
    /\ results = EmptyMap
    /\ linter_all_issues = <<>>
    /\ added_rules = <<>>

(* fix_code(file_path, content) calls analyze_file (a2a_server.py:124-130) *)
FixCodeAnalyze ==
    /\ pc = "idle"
    /\ \E p \in PreferConstPaths, c \in PreferConstContents :
        /\ file_path' = p
        /\ content' = c
    /\ issues' = <<>>
    /\ k' = 1
    /\ pc' = "analyzing"
    /\ UNCHANGED <<fixed_content, applied_fixes, origin, last, result, caller, disk, backup>>
    /\ UNCHANGED instance_vars

(* fix_code passes the issues to one_click_fix (a2a_server.py:132-137) *)
FixCodeFix ==
    /\ pc = "done"
    /\ "issues" \in DOMAIN result
    /\ issues' = result.issues
    /\ fixed_content' = content
    /\ applied_fixes' = <<>>
    /\ origin' = <<>>
    /\ last' = NoAttempt
    /\ pc' = "linter"
    /\ UNCHANGED <<content, file_path, k, result, caller, disk, backup>>
    /\ UNCHANGED instance_vars

NextPreferConst ==
    \/ FixCodeAnalyze \/ RunAnalyzer \/ AnalyzeReturn
    \/ FixCodeFix \/ LinterFix \/ AttemptFix \/ Return

SpecPreferConst == InitPreferConst /\ [][NextPreferConst]_vars

(* x is assigned again somewhere in s: plainly, compoundly or by increment *)
ReassignsX(s) == \E i \in 1..Len(s) : s[i] \in {AssignStmt, CompoundStmt, IncrementStmt}

(* the lines of s with every `let x = 1;` rewritten to `const x = 1;` *)
LetToConst(s) == [i \in 1..Len(s) |-> IF s[i] = LetStmt THEN ConstStmt ELSE s[i]]

(* C20: in a .ts file a line `let x = v;` without increment, decrement or   *)
(* loop header yields a ts-prefer-const warning with auto_fixable = true,   *)
(* and the Auto-Fixer rewrites the line to `const x = v;` only when x is    *)
(* never reassigned elsewhere: when x is reassigned, plainly, compoundly or *)
(* by increment, the fix is skipped and the line is left unchanged.         *)
C20_PreferConstOnlyWhenNeverReassigned ==
    /\ (pc = "done" /\ "issues" \in DOMAIN result) =>
          \A i \in 1..Len(content) :
              (content[i] = LetStmt /\ ~LineHasIncrement(content, i)) =>
                  \E j \in 1..Len(result.issues) :
                      /\ result.issues[j].rule_id = "ts-prefer-const"
                      /\ result.issues[j].severity = "warning"
                      /\ result.issues[j].auto_fixable
                      /\ result.issues[j].line_number = LineOf(content, i)
    /\ (pc = "done" /\ "fixed_content" \in DOMAIN result) =>
          /\ result.fixed_content \in {content, LetToConst(content)}
          /\ ReassignsX(content) => result.fixed_content = content

-----------------------------------------------------------------------------
(* the content after the attempts for the first n auto-fixable issues of    *)
(* iss, each made on the content the successful ones before it have left    *)
RECURSIVE FoldFixes(_, _, _)
FoldFixes(s, iss, n) ==
    IF n = 0 THEN s
    ELSE LET previous == FoldFixes(s, iss, n - 1)
             fix_result == _apply_issue_fix(previous, iss[AutoIndices(iss, 1)[n]])
         IN  IF fix_result.success THEN fix_result.content ELSE previous

(* C21: fix_content attempts the issues in the order received, as a fold:   *)
(* the attempt for the k-th issue is made on the content that the most      *)
(* recent successful attempt among the issues before it produced (or on the *)
(* starting content), and the pattern-fix entries of applied_fixes are in   *)
(* the order of their issues.                                               *)
C21_FixesFoldInOrder ==
    (caller = "one_click_fix" /\ pc = "fixing") =>
        LET start == LinterManager_fix_content(content, file_path)
        IN  /\ fixed_content = FoldFixes(start, issues, k - 1)
            /\ k > 1 => /\ last.issue = auto_fixable_issues[k - 1]
                        /\ last.before = FoldFixes(start, issues, k - 2)
            /\ \A i, j \in 1..Len(origin) :
                  (i < j /\ origin[i] # 0) => origin[i] < origin[j]

(* two attempts have succeeded, the second on the content the first left *)
C21_Witness ==
    /\ caller = "one_click_fix"
    /\ pc = "fixing"
    /\ k = 3
    /\ last.success
    /\ last.before # LinterManager_fix_content(content, file_path)
    /\ fixed_content # last.before
    /\ Cardinality({i \in 1..Len(origin) : origin[i] # 0}) = 2

-----------------------------------------------------------------------------
(* C22: during one fix pass no step changes the number of lines of the      *)
(* content, so the line number of an issue designates the same line when    *)
(* its fix is attempted as when the issue was reported.                     *)
C22_LineCountIsKept ==
    (caller = "one_click_fix" /\ pc \in {"fixing", "done"})
        => Len(split(fixed_content)) = Len(split(content))

-----------------------------------------------------------------------------
(* one_click_fix with issues of the rules that have a pattern: one with a   *)
(* literal template (ts-prefer-const) and one with a computed replacement   *)
(* (ts-naming-camelcase).                                                   *)
PatternTokens == {LetStmt, SnakeStmt, TypedStmt, TightStmt}
PatternContents == SeqsUpTo(PatternTokens \cup {NL}, MaxLen)

PatternIssuePool ==
    {_add_issue("ts-prefer-const", Description("ts-prefer-const"), "warning", n, TRUE) :
        n \in LineNumbers}
    \cup {_add_issue("ts-naming-camelcase",
                     "Variable \"user_name\" should use camelCase naming", "warning", n, TRUE) :
            n \in LineNumbers}
    \cup {_add_issue("prettier-spacing", "Formatting issue", "warning", n, TRUE) :
            n \in LineNumbers}
PatternIssueLists == SeqsUpTo(PatternIssuePool, MaxIssues)

(* one_click_fix(content, file_path, issues) (fix_manager.py:17-34) *)
PatternCall ==
    /\ pc = "idle"
    /\ \E c \in PatternContents, p \in FixPaths, iss \in PatternIssueLists :
        /\ content' = c
        /\ file_path' = p
        /\ issues' = iss
        /\ fixed_content' = c
    /\ applied_fixes' = <<>>
    /\ pc' = "linter"
    /\ UNCHANGED <<k, origin, last, result, caller, disk, backup>>
    /\ UNCHANGED instance_vars

NextPattern == PatternCall \/ LinterFix \/ AttemptFix \/ Return

SpecPattern == Init /\ [][NextPattern]_vars

(* the statement with the span that the pattern of the rule matched         *)
(* replaced, the text around the span kept                                  *)
SpanReplaced(rule_id, stmt) ==
    CASE rule_id = "ts-prefer-const" -> ConstStmt
      [] rule_id = "prettier-spacing" -> TypedStmt
      [] OTHER -> "userName = 1;"

(* C23: a successful pattern fix changes only the matched span of the       *)
(* target line of the issue: the text of the line outside the match and     *)
(* every other line are unchanged, with a literal template and with a       *)
(* computed replacement alike.                                              *)
C23_PatternFixChangesOnlyTheMatch ==
    (pc = "fixing" /\ k > 1 /\ last.success /\ issues[last.issue].rule_id \in fix_patterns) =>
        LET rule_id == issues[last.issue].rule_id
            n == issues[last.issue].line_number
            before == split(last.before)
            after == split(fixed_content)
        IN  /\ Len(after) = Len(before)
            /\ \A m \in 1..Len(before) : m # n => after[m] = before[m]
            /\ after[n] = [i \in 1..Len(before[n]) |->
                              IF PatternMatches(rule_id, before[n][i])
                              THEN SpanReplaced(rule_id, before[n][i])
                              ELSE before[n][i]]

-----------------------------------------------------------------------------
(* CucumberAnalyzer on a feature file: the step-order check of each scenario. *)
MaxSteps == 4

ScenarioLine == "Scenario: pay"
OutlineLine == "Scenario Outline: pay"
GivenStep == "Given I have a cart"
WhenStep == "When I pay"
ThenStep == "Then I see a receipt"
AndStep == "And I have a card"

GherkinLines == {ScenarioLine, OutlineLine, GivenStep, WhenStep, ThenStep, AndStep}

(* the feature texts: one to MaxSteps lines, each one of the lines above *)
GherkinContents ==
    {join([i \in 1..Len(ls) |-> <<ls[i]>>]) :
        ls \in SeqsUpTo(GherkinLines, MaxSteps) \ {<<>>}}

(* stripped.startswith('Scenario:') *)
StartsWithScenario(line) == line # <<>> /\ line[1] = ScenarioLine

(* stripped.startswith(('Given ', 'When ', 'Then ', 'And ', 'But ')) *)
StartsWithStepKeyword(line) ==
    line # <<>> /\ line[1] \in {GivenStep, WhenStep, ThenStep, AndStep}

_get_step_type(step) ==
    CASE step = GivenStep -> "Given"
      [] step = WhenStep -> "When"
      [] step = ThenStep -> "Then"
      [] step = AndStep -> "And/But"
      [] OTHER -> "Unknown"

GivenAfterDescription == "Given steps should not appear after When or Then"

(* the loop of _analyze_scenario_steps over step_types, from step i on *)
RECURSIVE ProperFlow(_, _, _, _, _)
ProperFlow(steps, i, given_phase, when_phase, then_phase) ==
    IF i > Len(steps) THEN <<>>
    ELSE LET step_type == _get_step_type(steps[i][2])
         IN  IF step_type = "When"
             THEN ProperFlow(steps, i + 1, FALSE, TRUE, then_phase)
             ELSE IF step_type = "Then"
             THEN ProperFlow(steps, i + 1, given_phase, FALSE, TRUE)
             ELSE IF step_type = "Given" /\ (when_phase \/ then_phase)
             THEN <<_add_issue("cucumber-given-when-then", GivenAfterDescription,
                               "error", steps[i][1], FALSE)>>
                  \o ProperFlow(steps, i + 1, given_phase, when_phase, then_phase)
             ELSE ProperFlow(steps, i + 1, given_phase, when_phase, then_phase)

(* steps: the (line_num, stripped) pairs of one scenario *)
_analyze_scenario_steps(steps) ==
    IF steps = <<>> THEN <<>>
    ELSE (IF _get_step_type(steps[1][2]) # "Given"
          THEN <<_add_issue("cucumber-given-when-then",
                            "Scenario should start with Given step",
                            "error", steps[1][1], FALSE)>>
          ELSE <<>>)
         \o ProperFlow(steps, 1, TRUE, FALSE, FALSE)

(* a variant of the loop below that carries the steps across Scenario: lines *)
RECURSIVE GherkinLoopUnsplit(_, _, _)
GherkinLoopUnsplit(lines, line_num, scenario_steps) ==
    IF line_num > Len(lines) THEN _analyze_scenario_steps(scenario_steps)
    ELSE IF StartsWithStepKeyword(lines[line_num])
    THEN GherkinLoopUnsplit(lines, line_num + 1,
                            Append(scenario_steps, <<line_num, lines[line_num][1]>>))
    ELSE GherkinLoopUnsplit(lines, line_num + 1, scenario_steps)

(* the loop of _check_gherkin_syntax from line line_num on, and the analysis *)
(* of the last scenario after it; every step above is in imperative mood    *)
(* and names no UI element, so the two per-step warnings are not emitted    *)
RECURSIVE GherkinLoop(_, _, _)
GherkinLoop(lines, line_num, scenario_steps) ==
    IF line_num > Len(lines) THEN _analyze_scenario_steps(scenario_steps)
    ELSE IF StartsWithScenario(lines[line_num])
    THEN _analyze_scenario_steps(scenario_steps)
         \o GherkinLoop(lines, line_num + 1, <<>>)
    ELSE IF StartsWithStepKeyword(lines[line_num])
    THEN GherkinLoop(lines, line_num + 1,
                     Append(scenario_steps, <<line_num, lines[line_num][1]>>))
    ELSE GherkinLoop(lines, line_num + 1, scenario_steps)

_check_gherkin_syntax(s) == GherkinLoop(split(s), 1, <<>>)

(* _check_scenario_quality: the name `pay` is shorter than 15 characters *)
RECURSIVE _check_scenario_quality(_, _)
_check_scenario_quality(lines, line_num) ==
    IF line_num > Len(lines) THEN <<>>
    ELSE (IF StartsWithScenario(lines[line_num])
          THEN <<_add_issue("cucumber-scenario-naming",
                            "Scenario names should be more descriptive",
                            "warning", line_num, FALSE)>>
          ELSE <<>>) \o _check_scenario_quality(lines, line_num + 1)

(* _analyze_feature_file: the texts above have no tag and no Background *)
_analyze_feature_file(s) ==
    _check_feature_structure(s) \o _check_scenario_quality(split(s), 1)
    \o _check_gherkin_syntax(s)

InitGherkin ==
    /\ pc = "idle"
    /\ content = <<>>
    /\ file_path = <<>>
    /\ issues = <<>>
    /\ fixed_content = <<>>
    /\ applied_fixes = <<>>
    /\ k = 0
    /\ origin = <<>>
    /\ last = NoAttempt
    /\ result = NoResult
    /\ caller = "CucumberAnalyzer.analyze_file"
    /\ disk = NoFile
    /\ backup = NoFile
    /\ self_issues = [a \in Analyzers |-> <<>>]
    /\ analyzer_all_issues = <<>>
    /\ calls = <<>>
    /\ requests = <<>>
    /\ directory = NoDirectory
    /\ results = EmptyMap
    /\ linter_all_issues = <<>>
    /\ added_rules = <<>>

(* CucumberAnalyzer.analyze_file(file_path, content) on a feature file *)
CucumberAnalyzeFile ==
    /\ pc = "idle"
    /\ \E s \in GherkinContents :
        /\ content' = s
        /\ self_issues' = [self_issues EXCEPT !["cucumber"] = _analyze_feature_file(s)]
    /\ file_path' = <<"a", ".feature">>
    /\ pc' = "analysed"
    /\ UNCHANGED <<issues, fixed_content, applied_fixes, k, origin, last, result, caller,
                   disk, backup>>
    /\ UNCHANGED <<analyzer_all_issues, calls, requests, directory, results,
                   linter_all_issues, added_rules>>

(* the caller takes the returned list *)
CucumberReturn ==
    /\ pc = "analysed"
    /\ issues' = self_issues["cucumber"]
    /\ pc' = "done"
    /\ UNCHANGED <<content, file_path, fixed_content, applied_fixes, k, origin, last,
                   result, caller, disk, backup>>
    /\ UNCHANGED instance_vars

NextGherkin == CucumberAnalyzeFile \/ CucumberReturn

SpecGherkin == InitGherkin /\ [][NextGherkin]_vars

(* line n is a Given step, and a When or Then step precedes it with no *)
(* Scenario: line between the two                                      *)
GivenAfterWhenOrThen(lines, n) ==
    /\ lines[n] = <<GivenStep>>
    /\ \E m \in 1..(n - 1) :
        /\ lines[m] \in {<<WhenStep>>, <<ThenStep>>}
        /\ \A j \in (m + 1)..(n - 1) : lines[j] # <<ScenarioLine>>

(* C24: after the analysis of a feature file, every Given step that follows *)
(* a When or Then step of its own scenario has exactly one                  *)
(* cucumber-given-when-then error 'Given steps should not appear after When *)
(* or Then' at its line, and no other line has one: And/But steps do not    *)
(* change the phase, and each Scenario: line starts a new scenario.         *)
C24_GivenAfterWhenOrThenIsAnError ==
    (caller = "CucumberAnalyzer.analyze_file" /\ pc \in {"analysed", "done"}) =>
        LET lines == split(content)
            emitted == self_issues["cucumber"]
        IN  /\ \A n \in 1..Len(lines) :
                Cardinality({i \in 1..Len(emitted) :
                    /\ emitted[i].description = GivenAfterDescription
                    /\ emitted[i].line_number = n})
                = IF GivenAfterWhenOrThen(lines, n) THEN 1 ELSE 0
            /\ \A i \in 1..Len(emitted) :
                emitted[i].description = GivenAfterDescription =>
                    /\ emitted[i].rule_id = "cucumber-given-when-then"
                    /\ emitted[i].severity = "error"
                    /\ emitted[i].line_number \in 1..Len(lines)

(* a scenario with When, And, Given, and an earlier scenario closed by a *)
(* Scenario: line before a Given                                         *)
C24_Witness ==
    /\ caller = "CucumberAnalyzer.analyze_file"
    /\ pc = "done"
    /\ split(content) = <<<<WhenStep>>, <<AndStep>>, <<GivenStep>>>>
    /\ \E i \in 1..Len(issues) :
        /\ issues[i].description = GivenAfterDescription
        /\ issues[i].line_number = 3

-----------------------------------------------------------------------------
(* C25: in every result of one_click_fix, content_changed is true if and  *)
(* only if applied_fixes is not empty: no fix is recorded without a       *)
(* change of the content, and the content does not change without a       *)
(* recorded fix.                                                          *)
C25_ChangedIffFixRecorded ==
    (caller = "one_click_fix" /\ pc = "done" /\ result.returned) =>
        (result.content_changed <=> result.applied_fixes # <<>>)

-----------------------------------------------------------------------------
(* Repeated fix_file runs on one file, as repeated fix_directory runs make. *)
MaxRuns == 2

(* the texts of the file, and the issues a run is given: at most one, a *)
(* missing semicolon or a ts-prefer-const issue                         *)
RefixContents == SeqsUpTo({LogNoSemi, LetStmt, NL}, MaxLen)

RefixIssuePool ==
    {i \in IssuePool : i.auto_fixable /\ i.rule_id \in {"style-semicolon", "ts-prefer-const"}}

RefixIssueLists == {<<>>} \cup {<<i>> : i \in RefixIssuePool}

InitRefix ==
    /\ pc = "idle"
    /\ content = <<>>
    /\ file_path = <<>>
    /\ issues = <<>>
    /\ fixed_content = <<>>
    /\ applied_fixes = <<>>
    /\ k = 0
    /\ origin = <<>>
    /\ last = NoAttempt
    /\ result = NoResult
    /\ caller = "fix_file"
    /\ disk \in {File(c) : c \in RefixContents}
    /\ backup = NoFile
    /\ self_issues = [a \in Analyzers |-> <<>>]
    /\ analyzer_all_issues = <<>>
    /\ calls = <<>>
    /\ requests = <<>>
    /\ directory = NoDirectory
    /\ results = EmptyMap
    /\ linter_all_issues = <<>>
    /\ added_rules = <<>>

(* fix_file(file_path, issues) on the file, for the first time or after an *)
(* earlier run has ended: open(file_path, 'r') and read, then              *)
(* one_click_fix (fix_manager.py:64-76); calls records the text read       *)
FixFileRun ==
    /\ pc \in {"idle", "done"}
    /\ Len(calls) < MaxRuns
    /\ disk.exists
    /\ \E p \in FixPaths, iss \in RefixIssueLists :
        /\ file_path' = IF pc = "idle" THEN p ELSE file_path
        /\ issues' = iss
    /\ content' = disk.text
    /\ fixed_content' = disk.text
    /\ applied_fixes' = <<>>
    /\ calls' = Append(calls, disk.text)
    /\ pc' = "linter"
    /\ UNCHANGED <<k, origin, last, result, caller, disk, backup>>
    /\ UNCHANGED <<self_issues, analyzer_all_issues, requests, directory, results,
                   linter_all_issues, added_rules>>

NextRefix ==
    \/ FixFileRun
    \/ LinterFix \/ AttemptFix \/ Return
    \/ FixFileUnchanged \/ WriteBack \/ WriteBackError \/ CreateBackup

SpecRefix == InitRefix /\ [][NextRefix]_vars

(* C26: after any sequence of fix_file runs on a file, the .backup sidecar, *)
(* when it exists, holds the content the file had before the first          *)
(* modifying fix: a later run does not overwrite the backup with content    *)
(* that was already fixed.                                                  *)
C26_BackupHoldsFirstOriginal ==
    (caller = "fix_file" /\ pc = "done" /\ calls # <<>> /\ backup.exists) =>
        backup.text = calls[1]

-----------------------------------------------------------------------------
(* get_auto_fixable_issues(): the stored issues that are auto-fixable *)
get_auto_fixable_issues == SelectSeq(analyzer_all_issues, LAMBDA i : i.auto_fixable)

(* get_issues_by_severity(severity) *)
get_issues_by_severity(severity) ==
    SelectSeq(analyzer_all_issues, LAMBDA i : i.severity = severity)

(* C27: after every analyze_file call that returns, a call that fails to   *)
(* read the file included, the results stored on the FileAnalyzer are      *)
(* those of the list the call returned: self.all_issues is that list, and  *)
(* get_issues_by_severity and get_auto_fixable_issues select from it.      *)
C27_StoredResultsAreTheLastReturned ==
    (caller = "analyze_file" /\ pc = "done" /\ result.returned) =>
        /\ analyzer_all_issues = result.issues
        /\ get_auto_fixable_issues = SelectSeq(result.issues, LAMBDA i : i.auto_fixable)
        /\ \A severity \in Severities :
            get_issues_by_severity(severity)
                = SelectSeq(result.issues, LAMBDA i : i.severity = severity)

-----------------------------------------------------------------------------
(* one_click_fix applied to its own output. *)

(* one_click_fix(result['fixed_content'], file_path, issues): the second *)
(* application, on the content the first has returned, with the same     *)
(* path and the same issues (fix_manager.py:17-34); calls keeps the      *)
(* result of the first                                                   *)
CallOnFixedContent ==
    /\ pc = "done"
    /\ calls = <<>>
    /\ calls' = <<result>>
    /\ content' = result.fixed_content
    /\ fixed_content' = result.fixed_content
    /\ applied_fixes' = <<>>
    /\ pc' = "linter"
    /\ UNCHANGED <<file_path, issues, k, origin, last, result, caller, disk, backup>>
    /\ UNCHANGED <<self_issues, analyzer_all_issues, requests, directory, results,
                   linter_all_issues, added_rules>>

NextTwice == Call \/ CallOnFixedContent \/ LinterFix \/ AttemptFix \/ Return

SpecTwice == Init /\ [][NextTwice]_vars

(* C28: one_click_fix is idempotent: applied to its own fixed_content with *)
(* the same issues list it returns that content unchanged, with            *)
(* content_changed false.                                                  *)
C28_OneClickFixIsIdempotent ==
    (caller = "one_click_fix" /\ pc = "done" /\ calls # <<>>) =>
        /\ result.fixed_content = calls[1].fixed_content
        /\ ~result.content_changed

-----------------------------------------------------------------------------
(* CustomLinter.lint_content and CustomLinter.fix_content on the same text. *)

(* CustomLinter.lint_content(content, file_path) (custom_linter.py:152-226) *)
CustomLintCall ==
    /\ pc = "idle"
    /\ \E p \in AnalysisPaths, c \in LintContents :
        /\ file_path' = p
        /\ content' = c
        /\ issues' = CustomLinter_lint_content(c, p)
    /\ pc' = "linted"
    /\ UNCHANGED <<fixed_content, applied_fixes, k, origin, last, result, caller, disk,
                   backup>>
    /\ UNCHANGED instance_vars

(* CustomLinter.fix_content(content, file_path) (custom_linter.py:228-252) *)
CustomFixCall ==
    /\ pc = "linted"
    /\ fixed_content' = CustomLinter_fix_content(content, file_path)
    /\ pc' = "done"
    /\ UNCHANGED <<content, file_path, issues, applied_fixes, k, origin, last, result,
                   caller, disk, backup>>
    /\ UNCHANGED instance_vars

NextCustomFix == CustomLintCall \/ CustomFixCall

SpecCustomFix == InitLint /\ [][NextCustomFix]_vars

(* lint_content reports an auto-fixable issue at the line of position i *)
ReportedFixable(i) ==
    \E j \in 1..Len(issues) :
        issues[j].auto_fixable /\ issues[j].line_number = LineOf(content, i)

(* C29: CustomLinter.fix_content removes only statements that lint_content  *)
(* reports as auto-fixable issues for the same file path: every statement   *)
(* on a line without such an issue is still in the result, and the content  *)
(* is returned unchanged when lint_content reports no auto-fixable issue    *)
(* for the path.                                                            *)
C29_FixRemovesOnlyWhatLintReports ==
    (caller = "lint_content" /\ pc = "done") =>
        /\ \A t \in LintTokens :
            Cardinality({i \in 1..Len(fixed_content) : fixed_content[i] = t})
                >= Cardinality({i \in 1..Len(content) :
                                    content[i] = t /\ ~ReportedFixable(i)})
        /\ (\A j \in 1..Len(issues) : ~issues[j].auto_fixable) => fixed_content = content

-----------------------------------------------------------------------------
(* C30: the next_steps of a one_click_fix result contain the 'No issues    *)
(* found' step only when the issues list passed in is empty: with at least *)
(* one issue passed, fixed or not, the step is absent; and the 'Run tests' *)
(* step is the last entry.                                                 *)
C30_NoIssuesStepOnlyWithoutIssues ==
    (caller = "one_click_fix" /\ pc = "done" /\ result.returned) =>
        LET steps == result.next_steps
        IN  /\ (\E i \in 1..Len(steps) : steps[i].step = "No issues found") => issues = <<>>
            /\ steps # <<>>
            /\ steps[Len(steps)].step = "Run tests"

=============================================================================
